---- MODULE Spec2Model ----
(***************************************************************************)
(* A model of the soursop wallet subsystem: the envelope cipher            *)
(* (util/encrypt-decrypt), the Wallet record store (wallet/model) with     *)
(* WalletManager.store / retrieve, and the TelegramWalletHandler session   *)
(* cache.                                                                  *)
(*                                                                         *)
(* Cryptographic primitives are idealised in the usual symbolic way: a     *)
(* derived key is determined by (password, salt) and determines them, and  *)
(* an authentication tag verifies only against the (key, iv, ciphertext)   *)
(* it was computed from.  Everything the repository's own code does around *)
(* the primitives (slicing offsets, order of the calls, what is caught and *)
(* what is re-thrown, what is written where) is modelled step by step.     *)
(***************************************************************************)
EXTENDS Integers, Sequences, FiniteSets, TLC

(***************************************************************************)
(* Bounds of the model.                                                    *)
(***************************************************************************)
MaxPlainLen == 2        \* longest plaintext string, in characters
MaxRand == 2            \* number of distinct values a random draw can take
MaxPasswords == 2       \* number of distinct passwords
MaxUsers == 2           \* number of user ids
MaxKeys == 2            \* number of distinct keypairs
MaxDocs == 2            \* documents the callers of WalletModel may add up to

(***************************************************************************)
(* Program constants.                                                      *)
(***************************************************************************)
SALT_LEN == 16
IV_LEN == 12
AUTH_TAG_LEN == 16
KEY_LEN == 32
PASSWORD == 1           \* the configured PASSWORD, one of the passwords

Passwords == 1..MaxPasswords

(***************************************************************************)
(* Small helpers.                                                          *)
(***************************************************************************)
Min(a, b) == IF a < b THEN a ELSE b

RECURSIVE SumSeq(_)
SumSeq(s) == IF s = <<>> THEN 0 ELSE Head(s) + SumSeq(Tail(s))

RECURSIVE XorBits(_, _, _)
XorBits(a, b, k) ==
  IF k = 0 THEN 0
  ELSE (((a % 2) + (b % 2)) % 2) + 2 * XorBits(a \div 2, b \div 2, k - 1)

Xor(a, b) == XorBits(a, b, 8)

(***************************************************************************)
(* Bytes and buffers.  A byte is its value n in 0..255 together with t,    *)
(* the term it authenticates: <<>> for every byte except those of an       *)
(* authentication tag, which carry the (key, iv, ciphertext) the tag was   *)
(* computed from.  A buffer is a sequence of bytes.                        *)
(***************************************************************************)
Plain(n) == [n |-> n, t |-> <<>>]

Nums(buf) == [i \in 1..Len(buf) |-> buf[i].n]

\* Buffer.subarray(start, end): zero-based, end exclusive, clamped to the buffer
subarray(buf, start, end) ==
  SubSeq(buf, Min(start, Len(buf)) + 1, Min(end, Len(buf)))

\* crypto.randomBytes(len), the draw being r
RandomDraws == 1..MaxRand

\* a generator that returns the same bytes at every call
constantBytes(len, r) == [i \in 1..len |-> Plain(11)]

randomBytes(len, r) == [i \in 1..len |-> Plain((r * 83 + 11) % 256)]

(***************************************************************************)
(* Strings are sequences of UTF-16 code units, as JavaScript has them.     *)
(* Buffer.from(s, 'utf8') writes a surrogate pair as the four bytes of its *)
(* code point and an unpaired surrogate as U+FFFD; buf.toString() reads    *)
(* the bytes back, a code point above U+FFFF as a surrogate pair.          *)
(***************************************************************************)
IsHighSurrogate(c) == c >= 55296 /\ c < 56320
IsLowSurrogate(c) == c >= 56320 /\ c < 57344

\* the UTF-8 bytes of a code point
utf8Char(c) ==
  IF c < 128 THEN <<c>>
  ELSE IF c < 2048 THEN <<192 + (c \div 64), 128 + (c % 64)>>
  ELSE IF c < 65536
    THEN <<224 + (c \div 4096), 128 + ((c \div 64) % 64), 128 + (c % 64)>>
  ELSE <<240 + (c \div 262144), 128 + ((c \div 4096) % 64),
         128 + ((c \div 64) % 64), 128 + (c % 64)>>

\* the same as utf8Decode, but reading every byte as one character
latin1Decode(b) == b

RECURSIVE utf8Encode(_)
utf8Encode(s) ==
  IF s = <<>> THEN <<>>
  ELSE IF IsHighSurrogate(s[1]) /\ Len(s) >= 2 /\ IsLowSurrogate(s[2])
    THEN utf8Char(65536 + (s[1] - 55296) * 1024 + (s[2] - 56320))
         \o utf8Encode(SubSeq(s, 3, Len(s)))
  ELSE IF IsHighSurrogate(s[1]) \/ IsLowSurrogate(s[1])
    THEN utf8Char(65533) \o utf8Encode(Tail(s))
  ELSE utf8Char(s[1]) \o utf8Encode(Tail(s))

IsCont(b) == b >= 128 /\ b < 192

RECURSIVE utf8Decode(_)
utf8Decode(b) ==
  IF b = <<>> THEN <<>>
  ELSE IF b[1] < 128 THEN <<b[1]>> \o utf8Decode(Tail(b))
  ELSE IF b[1] >= 194 /\ b[1] < 224 /\ Len(b) >= 2 /\ IsCont(b[2])
    THEN <<(b[1] - 192) * 64 + (b[2] - 128)>> \o utf8Decode(SubSeq(b, 3, Len(b)))
  ELSE IF /\ b[1] >= 224 /\ b[1] < 240 /\ Len(b) >= 3 /\ IsCont(b[2]) /\ IsCont(b[3])
          /\ (b[1] = 224 => b[2] >= 160)      \* not an overlong form
          /\ (b[1] = 237 => b[2] < 160)       \* not an encoded surrogate
    THEN <<(b[1] - 224) * 4096 + (b[2] - 128) * 64 + (b[3] - 128)>>
         \o utf8Decode(SubSeq(b, 4, Len(b)))
  ELSE IF /\ b[1] >= 240 /\ b[1] < 245 /\ Len(b) >= 4
          /\ IsCont(b[2]) /\ IsCont(b[3]) /\ IsCont(b[4])
          /\ (b[1] = 240 => b[2] >= 144)      \* not an overlong form
          /\ (b[1] = 244 => b[2] < 144)       \* not above U+10FFFF
    THEN LET c == (b[1] - 240) * 262144 + (b[2] - 128) * 4096
                    + (b[3] - 128) * 64 + (b[4] - 128) - 65536
         IN  <<55296 + (c \div 1024), 56320 + (c % 1024)>>
             \o utf8Decode(SubSeq(b, 5, Len(b)))
  ELSE <<65533>> \o utf8Decode(Tail(b))     \* U+FFFD for a malformed byte

(***************************************************************************)
(* The primitives of node's crypto module.                                 *)
(***************************************************************************)
\* crypto.scrypt(password, salt, KEY_LEN): the derived key
scrypt(password, salt) == <<password, Nums(salt)>>

\* the AES-256-CTR keystream byte i under (key, iv)
KeyStream(key, iv, i) ==
  (key[1] * 89 + SumSeq(key[2]) * 7 + SumSeq(Nums(iv)) * 13 + i * 17) % 256

\* cipher.update / decipher.update: GCM en/deciphers by XOR with the keystream
cipherUpdate(key, iv, buf) ==
  [i \in 1..Len(buf) |-> Plain(Xor(buf[i].n, KeyStream(key, iv, i)))]

\* cipher.getAuthTag(): the full 16-byte tag over (key, iv, ciphertext)
getAuthTag(key, iv, ct) ==
  LET digest == SumSeq(Nums(ct)) * 5 + SumSeq(Nums(iv)) * 3 + key[1] * 29
      term == <<key, Nums(iv), Nums(ct)>>
  IN  [i \in 1..AUTH_TAG_LEN |-> [n |-> (digest + i * 41) % 256, t |-> term]]

\* the tag lengths decipher.setAuthTag accepts for GCM when createDecipheriv
\* was given no authTagLength option
ValidGcmTagLengths == {4, 8, 12, 13, 14, 15, 16}

(***************************************************************************)
(* encrypt(plaintext, password), with the two random draws and the outcome *)
(* of scrypt as inputs.  The result is the settled promise.                *)
(***************************************************************************)
\* encrypt with the authentication tag left out of the payload
encryptNoTag(plaintext, password, saltDraw, ivDraw, scryptErr) ==
  LET salt == randomBytes(SALT_LEN, saltDraw)
      iv == randomBytes(IV_LEN, ivDraw)
      key == scrypt(password, salt)
      ciphertext == cipherUpdate(key, iv, [i \in 1..Len(utf8Encode(plaintext)) |->
                                             Plain(utf8Encode(plaintext)[i])])
  IN  IF scryptErr
        THEN [status |-> "rejected", error |-> "Scrypt error", value |-> <<>>]
        ELSE [status |-> "resolved", error |-> "",
              value |-> salt \o iv \o ciphertext]

encrypt(plaintext, password, saltDraw, ivDraw, scryptErr) ==
  LET salt == randomBytes(SALT_LEN, saltDraw)
      iv == randomBytes(IV_LEN, ivDraw)
      key == scrypt(password, salt)
      ciphertext == cipherUpdate(key, iv, [i \in 1..Len(utf8Encode(plaintext)) |->
                                             Plain(utf8Encode(plaintext)[i])])
      authTag == getAuthTag(key, iv, ciphertext)
  IN  IF scryptErr
        THEN [status |-> "rejected", error |-> "Scrypt error", value |-> <<>>]
        ELSE [status |-> "resolved", error |-> "",
              value |-> salt \o iv \o authTag \o ciphertext]

(***************************************************************************)
(* decrypt(encryptedBuffer, password).  ops lists the cryptographic calls  *)
(* made, in order.                                                         *)
(***************************************************************************)
decrypt(encryptedBuffer, password, scryptErr) ==
  LET salt == subarray(encryptedBuffer, 0, SALT_LEN)
      iv == subarray(encryptedBuffer, SALT_LEN, SALT_LEN + IV_LEN)
      authTag == subarray(encryptedBuffer, SALT_LEN + IV_LEN,
                          SALT_LEN + IV_LEN + AUTH_TAG_LEN)
      ciphertext == subarray(encryptedBuffer, SALT_LEN + IV_LEN + AUTH_TAG_LEN,
                             Len(encryptedBuffer))
      key == scrypt(password, salt)
      decrypted == cipherUpdate(key, iv, ciphertext)
      expected == subarray(getAuthTag(key, iv, ciphertext), 0, Len(authTag))
  IN  IF scryptErr
        THEN [status |-> "rejected", error |-> "Scrypt error", value |-> <<>>,
              ops |-> <<"scrypt">>]
      ELSE IF Len(iv) = 0
        THEN [status |-> "rejected", error |-> "Invalid initialization vector",
              value |-> <<>>, ops |-> <<"scrypt", "createDecipheriv">>]
      ELSE IF Len(authTag) \notin ValidGcmTagLengths
        THEN [status |-> "rejected", error |-> "Invalid authentication tag length",
              value |-> <<>>,
              ops |-> <<"scrypt", "createDecipheriv", "setAuthTag">>]
      ELSE IF authTag # expected
        THEN [status |-> "rejected",
              error |-> "Unsupported state or unable to authenticate data",
              value |-> <<>>,
              ops |-> <<"scrypt", "createDecipheriv", "setAuthTag", "update", "final">>]
      ELSE [status |-> "resolved", error |-> "",
            value |-> utf8Decode(Nums(decrypted)),
            ops |-> <<"scrypt", "createDecipheriv", "setAuthTag", "update", "final">>]


(***************************************************************************)
(* buf.toString('base64'), as a string of code points.                     *)
(***************************************************************************)
base64Char(i) ==
  IF i < 26 THEN 65 + i
  ELSE IF i < 52 THEN 97 + (i - 26)
  ELSE IF i < 62 THEN 48 + (i - 52)
  ELSE IF i = 62 THEN 43
  ELSE IF i = 63 THEN 47
  ELSE 61                                   \* '=' padding

RECURSIVE base64(_)
base64(b) ==
  IF Len(b) = 0 THEN <<>>
  ELSE IF Len(b) = 1
    THEN <<base64Char(b[1] \div 4), base64Char((b[1] % 4) * 16),
           base64Char(64), base64Char(64)>>
  ELSE IF Len(b) = 2
    THEN <<base64Char(b[1] \div 4), base64Char((b[1] % 4) * 16 + (b[2] \div 16)),
           base64Char((b[2] % 16) * 4), base64Char(64)>>
  ELSE <<base64Char(b[1] \div 4), base64Char((b[1] % 4) * 16 + (b[2] \div 16)),
         base64Char((b[2] % 16) * 4 + (b[3] \div 64)), base64Char(b[3] % 64)>>
       \o base64(SubSeq(b, 4, Len(b)))

toBase64(buf) == base64(Nums(buf))


(***************************************************************************)
(* The Wallet collection (wallet/model).  A document is a record whose     *)
(* domain holds the fields that are present; the collection is the         *)
(* sequence of documents in insertion order, a document's _id being its    *)
(* position.  The repository holds two versions of the schema: the one     *)
(* without indexes and the one that declares the three unique indexes.     *)
(***************************************************************************)
VARIABLES
  schema,        \* which version of the Wallet class is loaded
  wallets,       \* the documents of the collection
  modelResult,   \* the outcome of the last call made on WalletModel directly
  storeCalls,    \* the WalletManager.store calls: each call's position and locals
  userWallets,   \* TelegramWalletHandler.userWallets: the entries of the Map
  lastWrite,     \* per user id, the wallet of the latest userWallets.set (history)
  handlerCalls,  \* the TelegramWalletHandler calls: each call's position and locals
  cipher,        \* the envelope under test: what was sealed, and what came of it
  sealed,        \* one plaintext and password, and the envelopes encrypt made of them
  manager,       \* the latest WalletManager calls and what they returned
  balanceCalls,  \* the WalletManager.getBalance calls: each call's position and locals
  botVersion,    \* which version of index.ts was launched
  textHandlers,  \* how many bot.on('text') middlewares are registered
  userStates,    \* index.ts userStates: the entries of the Map
  chat,          \* per message id, whether the chat holds the message
  botUpdates     \* the updates the bot handles: each handler's position and locals

modelVars == <<schema, wallets, modelResult>>
handlerVars == <<userWallets, lastWrite, handlerCalls>>
botVars == <<botVersion, textHandlers, userStates, chat, botUpdates>>

SchemaVersions == {"model.ts", "part_005"}

RequiredFields == {"userId", "address", "encryptedPrivateKey"}

\* the unique indexes of the loaded schema, in the order they are declared
UniqueIndexes(version) ==
  IF version = "part_005" THEN <<"userId", "address", "encryptedPrivateKey">>
  ELSE <<>>

NoError == [name |-> "", code |-> 0, message |-> "", fields |-> {}]

\* the first unique index the document violates in the collection, if any
FirstDuplicate(coll, doc, indexes) ==
  LET hits == {k \in 1..Len(indexes) :
                 \E i \in 1..Len(coll) : coll[i][indexes[k]] = doc[indexes[k]]}
  IN  IF hits = {} THEN 0
      ELSE CHOOSE k \in hits : \A j \in hits : k <= j

\* document.save(): validation of the required paths, then one insert that
\* the unique indexes accept or refuse atomically
save(coll, doc, version) ==
  LET missing == {f \in RequiredFields : f \notin DOMAIN doc}
      dup == FirstDuplicate(coll, doc, UniqueIndexes(version))
  IN  IF missing # {}
        THEN [status |-> "rejected", coll |-> coll, id |-> 0,
              error |-> [name |-> "ValidationError", code |-> 0,
                         message |-> "Wallet validation failed",
                         fields |-> missing]]
      ELSE IF dup # 0
        THEN [status |-> "rejected", coll |-> coll, id |-> 0,
              error |-> [name |-> "MongoServerError", code |-> 11000,
                         message |-> "E11000 duplicate key error",
                         fields |-> {UniqueIndexes(version)[dup]}]]
      ELSE [status |-> "resolved", coll |-> Append(coll, doc), id |-> Len(coll) + 1,
            error |-> NoError]

\* Wallet.createAndSave of src/wallet/model.ts: new this(data) and save()
createAndSavePlain(coll, data, version) == save(coll, data, version)

\* createAndSaveCatch with the catch block re-throwing every error as a duplicate
createAndSaveCatchAll(coll, data, version) ==
  LET r == save(coll, data, version)
  IN  IF r.status = "rejected"
        THEN [r EXCEPT !.error = [name |-> "Error", code |-> 0,
                                  message |-> "Duplicate value for field: ",
                                  fields |-> {}]]
        ELSE r

\* Wallet.createAndSave of part_005: a duplicate-key error is re-thrown as
\* Error('Duplicate value for field: <field>'), any other error as it is
createAndSaveCatch(coll, data, version) ==
  LET r == save(coll, data, version)
  IN  IF r.status = "rejected" /\ r.error.name = "MongoServerError"
         /\ r.error.code = 11000
        THEN [r EXCEPT !.error = [name |-> "Error", code |-> 0,
                                  message |-> "Duplicate value for field: ",
                                  fields |-> r.error.fields]]
        ELSE r

createAndSave(coll, data, version) ==
  IF version = "part_005" THEN createAndSaveCatch(coll, data, version)
  ELSE createAndSavePlain(coll, data, version)

\* findByUserId as findOneAndDelete: the match leaves the collection
findByUserIdAndDelete(coll, userId) ==
  LET hits == {i \in 1..Len(coll) : coll[i].userId = userId}
      id == IF hits = {} THEN 0 ELSE CHOOSE i \in hits : \A j \in hits : i <= j
  IN  [coll |-> IF id = 0 THEN coll
                ELSE SubSeq(coll, 1, id - 1) \o SubSeq(coll, id + 1, Len(coll)),
       id |-> id]

\* Wallet.findByUserId: findOne({ userId }), the first match or null (0);
\* the collection is as it was
findByUserId(coll, userId) ==
  LET hits == {i \in 1..Len(coll) : coll[i].userId = userId}
  IN  [coll |-> coll,
       id |-> IF hits = {} THEN 0 ELSE CHOOSE i \in hits : \A j \in hits : i <= j]

(***************************************************************************)
(* The callers of WalletModel (model.test.ts): createAndSave with each     *)
(* required field present with one of a few values, or absent.             *)
(***************************************************************************)
UserIds == 1..MaxUsers
Keys == 1..MaxKeys

\* the address of keypair k, as text
AddressOf(k) == <<65, 48 + k>>

Restrict(f, S) == [x \in S |-> f[x]]

DirectData ==
  LET full == {[userId |-> u, address |-> AddressOf(k), encryptedPrivateKey |-> e,
                encryptedMnemonic |-> <<101>> \o e] :
                 u \in UserIds, k \in Keys, e \in {<<112, 49>>, <<112, 50>>}}
  IN  {Restrict(d, D) : d \in full,
                        D \in {RequiredFields \cup {"encryptedMnemonic"},
                               RequiredFields,
                               RequiredFields \ {"userId"},
                               RequiredFields \ {"address"},
                               RequiredFields \ {"encryptedPrivateKey"},
                               {"encryptedPrivateKey"}}}

Pending == [op |-> "none", status |-> "pending", id |-> 0, error |-> NoError]

Outcome(op, r) == [op |-> op, status |-> r.status, id |-> r.id, error |-> r.error]

\* WalletModel.createAndSave(data)
CreateAndSave(data) ==
  /\ Len(wallets) < MaxDocs
  /\ LET r == createAndSave(wallets, data, schema)
     IN  /\ wallets' = r.coll
         /\ modelResult' = Outcome("createAndSave", r)
  /\ UNCHANGED <<schema, storeCalls, handlerVars, cipher, sealed, manager, balanceCalls, botVars>>

\* WalletModel.findByUserId(userId)
FindByUserId(userId) ==
  /\ LET r == findByUserId(wallets, userId)
     IN  /\ wallets' = r.coll
         /\ modelResult' = [op |-> "findByUserId", status |-> "resolved",
                            id |-> r.id, error |-> NoError]
  /\ UNCHANGED <<schema, storeCalls, handlerVars, cipher, sealed, manager, balanceCalls, botVars>>

(***************************************************************************)
(* WalletManager (part_004): the wallets that reach store, exportKeyPair,  *)
(* store and retrieve.  A CryptoKey is an opaque handle on keypair k; the  *)
(* exported strings stand for the base58 text of its raw bytes.            *)
(***************************************************************************)
\* the two store calls that run concurrently
StoreCallIds == {1, 2}

PublicCryptoKey(k) == <<"CryptoKey", "public", k>>
PrivateCryptoKey(k) == <<"CryptoKey", "private", k>>

\* the recovery phrase that derives keypair k: twelve words, a space
\* between two words
MnemonicOf(k) == <<109, 48 + k>> \o [i \in 1..22 |-> IF i % 2 = 1 THEN 32 ELSE 119]

\* what generateWallet / importFromMnemonic return (with the mnemonic) and
\* what importFromPrivateKey returns (without)
WalletInfos ==
  {[publicKey |-> PublicCryptoKey(k), privateKey |-> PrivateCryptoKey(k),
    mnemonic |-> MnemonicOf(k)] : k \in Keys}
  \cup {[publicKey |-> PublicCryptoKey(k), privateKey |-> PrivateCryptoKey(k)] : k \in Keys}

\* exportKeyPair: [privateKeyBs58, publicKeyBs58]
exportKeyPair(wallet) ==
  <<(<<75, 48 + wallet.privateKey[3]>>), AddressOf(wallet.publicKey[3])>>

\* JavaScript truthiness of wallet.mnemonic
HasMnemonic(wallet) == "mnemonic" \in DOMAIN wallet /\ wallet.mnemonic # <<>>

\* the outcomes of the two randomBytes calls of one encrypt that store meets:
\* <<salt draw, iv draw>>
StoreDraws == {<<1, 2>>, <<2, 1>>}

\* (await encrypt(secret, PASSWORD)).toString('base64')
encryptToBase64(secret, draws) ==
  toBase64(encrypt(secret, PASSWORD, draws[1], draws[2], FALSE).value)

\* the argument store hands to createAndSave; an undefined encryptedMnemonic
\* is an absent field
storeData(call) ==
  IF call.encryptedMnemonic = <<>>
    THEN [userId |-> call.userId, address |-> call.publicKey,
          encryptedPrivateKey |-> call.secretKey]
    ELSE [userId |-> call.userId, address |-> call.publicKey,
          encryptedPrivateKey |-> call.secretKey,
          encryptedMnemonic |-> call.encryptedMnemonic]

NoData == [none |-> TRUE]
IdleCall ==
  [pc |-> "idle", wallet |-> NoData, userId |-> 0, privateKey |-> <<>>,
   publicKey |-> <<>>, secretKey |-> <<>>, encryptedMnemonic |-> <<>>,
   data |-> NoData, result |-> Pending]

\* store(wallet, userId) up to its first await: exportKeyPair
StoreExport(c, wallet, userId) ==
  /\ storeCalls[c].pc = "idle"
  /\ storeCalls' = [storeCalls EXCEPT ![c] =
       [@ EXCEPT !.pc = "encryptKey", !.wallet = wallet, !.userId = userId,
                 !.privateKey = exportKeyPair(wallet)[1],
                 !.publicKey = exportKeyPair(wallet)[2]]]
  /\ UNCHANGED <<modelVars, handlerVars, cipher, sealed, manager, balanceCalls, botVars>>

\* secretKeyOf without the encrypt: the exported key's own bytes in base64
secretKeyPlain(call, draws) ==
  base64(utf8Encode(call.privateKey))

\* const secretKey = (await encrypt(privateKey, PASSWORD)).toString('base64')
secretKeyOf(call, draws) == encryptToBase64(call.privateKey, draws)

StoreEncryptKey(c, draws) ==
  /\ storeCalls[c].pc = "encryptKey"
  /\ storeCalls' = [storeCalls EXCEPT ![c] =
       [@ EXCEPT !.pc = IF HasMnemonic(storeCalls[c].wallet)
                          THEN "encryptMnemonic" ELSE "save",
                 !.secretKey = secretKeyOf(storeCalls[c], draws)]]
  /\ UNCHANGED <<modelVars, handlerVars, cipher, sealed, manager, balanceCalls, botVars>>

\* const encryptedMnemonic = wallet.mnemonic && (await encrypt(...)).toString('base64')
encryptedMnemonicOf(call, draws) == encryptToBase64(call.wallet.mnemonic, draws)

StoreEncryptMnemonic(c, draws) ==
  /\ storeCalls[c].pc = "encryptMnemonic"
  /\ storeCalls' = [storeCalls EXCEPT ![c] =
       [@ EXCEPT !.pc = "save",
                 !.encryptedMnemonic = encryptedMnemonicOf(storeCalls[c], draws)]]
  /\ UNCHANGED <<modelVars, handlerVars, cipher, sealed, manager, balanceCalls, botVars>>

\* an await encrypt(...) that rejects (scrypt's error): store rejects with it
StoreEncryptFails(c) ==
  /\ storeCalls[c].pc \in {"encryptKey", "encryptMnemonic"}
  /\ storeCalls' = [storeCalls EXCEPT ![c] =
       [@ EXCEPT !.pc = "done",
                 !.result = [op |-> "store", status |-> "rejected", id |-> 0,
                             error |-> [name |-> "Error", code |-> 0,
                                        message |-> "Scrypt error",
                                        fields |-> {}]]]]
  /\ UNCHANGED <<modelVars, handlerVars, cipher, sealed, manager, balanceCalls, botVars>>

\* const newWallet = await WalletModel.createAndSave({...}); return newWallet._id
StoreSave(c) ==
  /\ storeCalls[c].pc = "save"
  /\ LET data == storeData(storeCalls[c])
         r == createAndSave(wallets, data, schema)
     IN  /\ wallets' = r.coll
         /\ storeCalls' = [storeCalls EXCEPT ![c] =
              [@ EXCEPT !.pc = "done", !.data = data,
                        !.result = Outcome("store", r)]]
  /\ UNCHANGED <<schema, modelResult, handlerVars, cipher, sealed, manager, balanceCalls, botVars>>

\* WalletManager.retrieve(userId): WalletModel.findByUserId(userId)
Retrieve(userId) ==
  /\ wallets' = findByUserId(wallets, userId).coll
  /\ UNCHANGED <<schema, modelResult, storeCalls, handlerVars, cipher, sealed, manager, balanceCalls, botVars>>

(***************************************************************************)
(* Key bytes and their text encodings.  Keypair k has a 32-byte seed (the  *)
(* raw private key) and 32 public bytes; web3.js keeps both as the 64-byte *)
(* secretKey, WebCrypto exports the seed behind a 16-byte PKCS#8 header.   *)
(***************************************************************************)
SeedOf(k) == [i \in 1..32 |-> (k * 37 + i * 3) % 256]
PublicBytesOf(k) == [i \in 1..32 |-> (k * 101 + i * 7) % 256]
SecretKeyOf(k) == SeedOf(k) \o PublicBytesOf(k)
Pkcs8Header == <<48, 46, 2, 1, 0, 48, 5, 6, 3, 43, 101, 112, 4, 34, 4, 32>>
Pkcs8Of(k) == Pkcs8Header \o SeedOf(k)

\* the keypair whose seed (32 bytes) or secretKey (64 bytes) this is; 0 is a
\* keypair other than those of the model
KeyIdOf(bytes) ==
  IF \E k \in Keys : bytes \in {SeedOf(k), SecretKeyOf(k)}
    THEN CHOOSE k \in Keys : bytes \in {SeedOf(k), SecretKeyOf(k)}
    ELSE 0

\* JSON.stringify of an array of numbers
RECURSIVE Digits(_)
Digits(n) == IF n < 10 THEN <<48 + n>> ELSE Digits(n \div 10) \o <<48 + (n % 10)>>

\* the texts joined by commas, halving the array
RECURSIVE JoinNumbers(_)
JoinNumbers(a) ==
  IF a = <<>> THEN <<>>
  ELSE IF Len(a) = 1 THEN Digits(a[1])
  ELSE LET h == Len(a) \div 2
       IN JoinNumbers(SubSeq(a, 1, h)) \o <<44>> \o JoinNumbers(SubSeq(a, h + 1, Len(a)))

jsonStringify(a) == <<91>> \o JoinNumbers(a) \o <<93>>

\* the value of a JSON number written with digits only, -1 when the text is
\* not one (empty, a character that is no digit, a leading zero)
RECURSIVE NumberOf(_)
NumberOf(token) ==
  IF token = <<>> THEN -1
  ELSE LET d == token[Len(token)] - 48
       IN IF d < 0 \/ d > 9 THEN -1
          ELSE IF Len(token) = 1 THEN d
          ELSE LET rest == NumberOf(SubSeq(token, 1, Len(token) - 1))
               IN IF rest <= 0 THEN -1 ELSE rest * 10 + d

\* the numbers of a comma-separated text, split at the comma nearest its
\* middle; ok is FALSE when some part is no number
RECURSIVE ParseNumbers(_)
ParseNumbers(chars) ==
  LET commas == {i \in 1..Len(chars) : chars[i] = 44}
      mid == (Len(chars) + 1) \div 2
      Distance(i) == IF i < mid THEN mid - i ELSE i - mid
      at == CHOOSE i \in commas : \A c \in commas : Distance(i) <= Distance(c)
      left == ParseNumbers(SubSeq(chars, 1, at - 1))
      right == ParseNumbers(SubSeq(chars, at + 1, Len(chars)))
  IN IF commas = {}
       THEN [ok |-> NumberOf(chars) >= 0, value |-> <<NumberOf(chars)>>]
     ELSE [ok |-> left.ok /\ right.ok, value |-> left.value \o right.value]

\* JSON.parse of a bracketed text: ok is FALSE for a SyntaxError.  Texts
\* other than arrays of unsigned integers do not occur.
JSONparse(text) ==
  LET inner == SubSeq(text, 2, Len(text) - 1)
  IN IF inner = <<>> THEN [ok |-> TRUE, value |-> <<>>]
     ELSE IF ~ParseNumbers(inner).ok THEN [ok |-> FALSE, value |-> <<>>]
     ELSE ParseNumbers(inner)

\* new Uint8Array(array)
Uint8Array(a) == [i \in 1..Len(a) |-> a[i] % 256]

\* buf.toString('hex') and Buffer.from(text, 'hex'): the decoder stops at
\* the first pair that is not two hex digits
HexChar(n) == IF n < 10 THEN 48 + n ELSE 87 + n
hexEncode(bytes) ==
  [i \in 1..(2 * Len(bytes)) |->
     IF i % 2 = 1 THEN HexChar(bytes[(i + 1) \div 2] \div 16)
     ELSE HexChar(bytes[i \div 2] % 16)]

HexValue(c) ==
  IF c >= 48 /\ c <= 57 THEN c - 48
  ELSE IF c >= 97 /\ c <= 102 THEN c - 87
  ELSE IF c >= 65 /\ c <= 70 THEN c - 55
  ELSE -1

hexDecode(text) ==
  LET PairOk(j) == HexValue(text[2 * j - 1]) >= 0 /\ HexValue(text[2 * j]) >= 0
      n == CHOOSE m \in 0..(Len(text) \div 2) :
             /\ \A j \in 1..m : PairOk(j)
             /\ m = Len(text) \div 2 \/ ~PairOk(m + 1)
  IN [i \in 1..n |-> HexValue(text[2 * i - 1]) * 16 + HexValue(text[2 * i])]

\* bs58: the library's.  Here a one-to-one map on the key bytes of the
\* model, into the base58 alphabet, with the length base58 gives (44
\* characters for 32 bytes, 88 for 64); any other text of the alphabet
\* decodes to bytes that are no key.
Base58Alphabet ==
  <<49, 50, 51, 52, 53, 54, 55, 56, 57,
    65, 66, 67, 68, 69, 70, 71, 72, 74, 75, 76, 77, 78, 80, 81, 82, 83, 84, 85,
    86, 87, 88, 89, 90,
    97, 98, 99, 100, 101, 102, 103, 104, 105, 106, 107, 109, 110, 111, 112, 113,
    114, 115, 116, 117, 118, 119, 120, 121, 122>>

IsBase58(text) ==
  \A i \in 1..Len(text) : \E j \in 1..Len(Base58Alphabet) : Base58Alphabet[j] = text[i]

bs58encode(bytes) ==
  [i \in 1..((Len(bytes) * 11) \div 8) |->
     Base58Alphabet[((bytes[((i - 1) % Len(bytes)) + 1] + i) % 58) + 1]]

KeyBytes == {SeedOf(k) : k \in Keys} \cup {SecretKeyOf(k) : k \in Keys}

\* bs58.encode of the key bytes, evaluated once
Base58Texts == [b \in KeyBytes |-> bs58encode(b)]

\* bs58.decode: ok is FALSE when it throws 'Non-base58 character'
bs58decode(text) ==
  IF \E b \in KeyBytes : Base58Texts[b] = text
    THEN [ok |-> TRUE, value |-> CHOOSE b \in KeyBytes : Base58Texts[b] = text]
  ELSE IF ~IsBase58(text) THEN [ok |-> FALSE, value |-> <<>>]
  ELSE [ok |-> TRUE,
        value |-> [i \in 1..((Len(text) * 8) \div 11) |-> text[i]]]

(***************************************************************************)
(* WalletManager (part_003), as TelegramWalletHandler uses it: a WalletInfo *)
(* holds the address and the secret key as base58 text.  Deriving a        *)
(* keypair from a phrase and decoding a secret key are the library's; they *)
(* are total maps between the phrases, the texts and the keypairs 1..n.    *)
(***************************************************************************)
\* bs58.encode(keypair.secretKey) of keypair k
SecretKeyText(k) == Base58Texts[SecretKeyOf(k)]

\* C19 mutant: a validation that accepts every phrase
validateAny(mnemonic) == TRUE

\* bip39.validateMnemonic
validateMnemonic(mnemonic) == \E k \in Keys : mnemonic = MnemonicOf(k)

\* keypairFromMnemonic: the keypair the phrase derives
keypairFromMnemonic(mnemonic) == CHOOSE k \in Keys : mnemonic = MnemonicOf(k)

\* Keypair.fromSecretKey(bytes): it throws unless the bytes are 64 and the
\* public half belongs to the seed
fromSecretKey(bytes) ==
  IF Len(bytes) # 64
    THEN [ok |-> FALSE, value |-> 0,
          error |-> [class |-> "Error", message |-> <<"bad secret key size">>,
                     cause |-> NoData]]
  ELSE IF KeyIdOf(bytes) = 0
    THEN [ok |-> FALSE, value |-> 0,
          error |-> [class |-> "Error", message |-> <<"provided secretKey is invalid">>,
                     cause |-> NoData]]
  ELSE [ok |-> TRUE, value |-> KeyIdOf(bytes),
        error |-> [class |-> "", message |-> <<>>, cause |-> NoData]]

\* Keypair.fromSecretKey(bs58.decode(text)): the keypair, or 0 when it throws
fromSecretKeyText(text) ==
  IF bs58decode(text).ok /\ fromSecretKey(bs58decode(text).value).ok
    THEN fromSecretKey(bs58decode(text).value).value
    ELSE 0

Resolved(v) == [status |-> "resolved", value |-> v, error |-> ""]
Rejected(e) == [status |-> "rejected", value |-> NoData, error |-> e]

\* generateWallet(), generateMnemonic drawing the phrase of keypair draw, or
\* throwing (draw 0)
generateWallet(draw) ==
  IF draw = 0
    THEN Rejected("Failed to generate wallet: Error")
    ELSE Resolved([publicKey |-> AddressOf(keypairFromMnemonic(MnemonicOf(draw))),
                   privateKey |-> SecretKeyText(keypairFromMnemonic(MnemonicOf(draw))),
                   mnemonic |-> MnemonicOf(draw)])

importFromMnemonic(mnemonic) ==
  IF ~validateMnemonic(mnemonic)
    THEN Rejected("Failed to import from mnemonic: Error: Invalid mnemonic phrase")
    ELSE Resolved([publicKey |-> AddressOf(keypairFromMnemonic(mnemonic)),
                   privateKey |-> SecretKeyText(keypairFromMnemonic(mnemonic)),
                   mnemonic |-> mnemonic])

\* An error object: its class, its message and its cause property
NothingThrown == [class |-> "", message |-> <<>>, cause |-> NoData]
ErrorOf(class, message) == [class |-> class, message |-> <<message>>, cause |-> NoData]

\* new Error(`<prefix>${error}`): the caught error survives as text in the
\* message; no cause is passed
WrapError(prefix, e) ==
  [class |-> "Error", message |-> <<prefix, e.class>> \o e.message, cause |-> NoData]

\* How a call of importFromPrivateKey / importFromMnemonic / generateWallet
\* settles.  Beside the promise's state, three observations of the run:
\* thrown, the error the catch block received (NothingThrown when none); decoder,
\* the branch that read the key text; derived, the byte arrays handed to the
\* key constructor.
Fulfilled(value, decoder, derived) ==
  [status |-> "resolved", value |-> value, error |-> NothingThrown, thrown |-> NothingThrown,
   decoder |-> decoder, derived |-> derived]
Failed(error, thrown, decoder, derived) ==
  [status |-> "rejected", value |-> NoData, error |-> error, thrown |-> thrown,
   decoder |-> decoder, derived |-> derived]

IsBracketed(text) == Len(text) >= 1 /\ text[1] = 91 /\ text[Len(text)] = 93

SyntaxError == ErrorOf("SyntaxError", "Unexpected token")
Base58Error == ErrorOf("Error", "Non-base58 character")

\* importFromPrivateKey, the branches that read the text
decodeSecretKey(privateKey) ==
  IF IsBracketed(privateKey)
    THEN [decoder |-> "json", ok |-> JSONparse(privateKey).ok,
          value |-> Uint8Array(JSONparse(privateKey).value),
          error |-> IF JSONparse(privateKey).ok THEN NothingThrown ELSE SyntaxError]
  ELSE IF Len(privateKey) = 128
    THEN [decoder |-> "hex", ok |-> TRUE, value |-> hexDecode(privateKey),
          error |-> NothingThrown]
  ELSE [decoder |-> "base58", ok |-> bs58decode(privateKey).ok,
        value |-> bs58decode(privateKey).value,
        error |-> IF bs58decode(privateKey).ok THEN NothingThrown ELSE Base58Error]

importFromPrivateKey(privateKey) ==
  LET bytes == decodeSecretKey(privateKey)
      keypair == fromSecretKey(bytes.value)
      prefix == "Failed to import from private key: "
  IN IF ~bytes.ok
       THEN Failed(WrapError(prefix, bytes.error), bytes.error, bytes.decoder, <<>>)
     ELSE IF ~keypair.ok
       THEN Failed(WrapError(prefix, keypair.error), keypair.error, bytes.decoder,
                   <<bytes.value>>)
     ELSE Fulfilled([publicKey |-> AddressOf(keypair.value),
                     privateKey |-> SecretKeyText(keypair.value)],
                    bytes.decoder, <<bytes.value>>)

\* getBalance(publicKey): the RPC answers with lamports, or fails (-1); the
\* result is the quotient balance / LAMPORTS_PER_SOL, kept as a fraction
LAMPORTS_PER_SOL == 1000000000
RpcAnswers == {-1, 0, 1500000000}
getBalance(publicKey, answer) ==
  IF answer < 0 THEN Rejected("Failed to get balance: Error")
  ELSE Resolved([num |-> answer, den |-> LAMPORTS_PER_SOL])

\* getKeypair(walletInfo)
getKeypair(walletInfo) == <<"Keypair", fromSecretKeyText(walletInfo.privateKey)>>

(***************************************************************************)
(* WalletManager (part_004): @solana/kit, keys held as CryptoKey objects.  *)
(* Its operations carry the suffix Kit where part_003 has one of the same  *)
(* name.  subtle tells whether the runtime's WebCrypto imports an Ed25519  *)
(* key; without it createKeyPairFromPrivateKeyBytes rejects.               *)
(***************************************************************************)
\* the WalletManager objects of the tests
Instances == {1, 2}

\* createKeyPairFromPrivateKeyBytes(bytes, true), an async function: every
\* failure is a rejection of the promise it returns
createKeyPairFromPrivateKeyBytes(bytes, subtle) ==
  IF Len(bytes) # 32
    THEN [ok |-> FALSE, value |-> NoData,
          error |-> ErrorOf("SolanaError", "invalid private key byte length")]
  ELSE IF ~subtle
    THEN [ok |-> FALSE, value |-> NoData,
          error |-> ErrorOf("SolanaError", "Ed25519 key import is not implemented")]
  ELSE [ok |-> TRUE,
        value |-> [publicKey |-> PublicCryptoKey(KeyIdOf(bytes)),
                   privateKey |-> PrivateCryptoKey(KeyIdOf(bytes))],
        error |-> NothingThrown]

\* C16 mutant: the leading 32 bytes of a longer array
processKeyLeading(buffer) ==
  IF Len(buffer) = 32 THEN [ok |-> TRUE, value |-> buffer, error |-> NothingThrown]
  ELSE IF Len(buffer) > 32
    THEN [ok |-> TRUE, value |-> SubSeq(buffer, 1, 32), error |-> NothingThrown]
  ELSE [ok |-> FALSE, value |-> <<>>,
        error |-> ErrorOf("Error", "Key is too short. Expected at least 32 bytes.")]

\* processKey(buffer); buffer.slice(-32) is the trailing 32 elements
processKey(buffer) ==
  IF Len(buffer) = 32 THEN [ok |-> TRUE, value |-> buffer, error |-> NothingThrown]
  ELSE IF Len(buffer) > 32
    THEN [ok |-> TRUE, value |-> SubSeq(buffer, Len(buffer) - 31, Len(buffer)),
          error |-> NothingThrown]
  ELSE [ok |-> FALSE, value |-> <<>>,
        error |-> ErrorOf("Error", "Key is too short. Expected at least 32 bytes.")]

\* C15 mutant: the length test tried before the bracket test
decodePrivateKeyByLength(privateKey) ==
  IF Len(privateKey) = 64
    THEN [decoder |-> "hex", ok |-> TRUE, value |-> hexDecode(privateKey),
          error |-> NothingThrown]
  ELSE IF IsBracketed(privateKey)
    THEN IF ~JSONparse(privateKey).ok
           THEN [decoder |-> "json", ok |-> FALSE, value |-> <<>>, error |-> SyntaxError]
         ELSE [decoder |-> "json", ok |-> processKey(JSONparse(privateKey).value).ok,
               value |-> Uint8Array(processKey(JSONparse(privateKey).value).value),
               error |-> processKey(JSONparse(privateKey).value).error]
  ELSE [decoder |-> "base58", ok |-> bs58decode(privateKey).ok,
        value |-> bs58decode(privateKey).value,
        error |-> IF bs58decode(privateKey).ok THEN NothingThrown ELSE Base58Error]

\* importFromPrivateKey, the branches that read the text
decodePrivateKey(privateKey) ==
  IF IsBracketed(privateKey)
    THEN IF ~JSONparse(privateKey).ok
           THEN [decoder |-> "json", ok |-> FALSE, value |-> <<>>, error |-> SyntaxError]
         ELSE [decoder |-> "json", ok |-> processKey(JSONparse(privateKey).value).ok,
               value |-> Uint8Array(processKey(JSONparse(privateKey).value).value),
               error |-> processKey(JSONparse(privateKey).value).error]
  ELSE IF Len(privateKey) = 64
    THEN [decoder |-> "hex", ok |-> TRUE, value |-> hexDecode(privateKey),
          error |-> NothingThrown]
  ELSE [decoder |-> "base58", ok |-> bs58decode(privateKey).ok,
        value |-> bs58decode(privateKey).value,
        error |-> IF bs58decode(privateKey).ok THEN NothingThrown ELSE Base58Error]

importFromPrivateKeyKit(self, privateKey, subtle) ==
  LET bytes == decodePrivateKey(privateKey)
      keypair == createKeyPairFromPrivateKeyBytes(bytes.value, subtle)
      prefix == "Failed to import from private key: "
  IN IF ~bytes.ok
       THEN Failed(WrapError(prefix, bytes.error), bytes.error, bytes.decoder, <<>>)
     ELSE IF ~keypair.ok
       THEN Failed(WrapError(prefix, keypair.error), keypair.error, bytes.decoder,
                   <<bytes.value>>)
     ELSE Fulfilled(keypair.value, bytes.decoder, <<bytes.value>>)

\* derivePath("m/44'/501'/0'/0'", mnemonicToSeedSync(mnemonic)).key: 32 bytes
\* for every string; the seed of keypair k for its phrase
derivedSeed(mnemonic) ==
  IF \E k \in Keys : mnemonic = MnemonicOf(k)
    THEN SeedOf(CHOOSE k \in Keys : mnemonic = MnemonicOf(k))
    ELSE [i \in 1..32 |-> (Len(mnemonic) * 13 + i * 5 + 1) % 256]

\* C20 mutant: a derivation salted with the WalletManager object
keypairFromMnemonicPerInstance(self, mnemonic, subtle) ==
  createKeyPairFromPrivateKeyBytes(
    IF self = 1 THEN derivedSeed(mnemonic)
    ELSE [i \in 1..32 |-> (derivedSeed(mnemonic)[i] + self) % 256], subtle)

\* keypairFromMnemonic(mnemonic): not async, it returns the promise of
\* createKeyPairFromPrivateKeyBytes
keypairFromMnemonicKit(self, mnemonic, subtle) ==
  createKeyPairFromPrivateKeyBytes(derivedSeed(mnemonic), subtle)

\* C21 mutant: an import that returns the keys without the phrase
importFromMnemonicKeysOnly(self, mnemonic, subtle) ==
  LET keypair == createKeyPairFromPrivateKeyBytes(derivedSeed(mnemonic), subtle)
      prefix == "Failed to import from mnemonic: "
      invalid == ErrorOf("Error", "Invalid mnemonic phrase")
  IN IF ~validateMnemonic(mnemonic)
       THEN Failed(WrapError(prefix, invalid), invalid, "", <<>>)
     ELSE IF ~keypair.ok
       THEN Failed(WrapError(prefix, keypair.error), keypair.error, "",
                   <<derivedSeed(mnemonic)>>)
     ELSE Fulfilled(keypair.value, "", <<derivedSeed(mnemonic)>>)

importFromMnemonicKit(self, mnemonic, subtle) ==
  LET keypair == keypairFromMnemonicKit(self, mnemonic, subtle)
      prefix == "Failed to import from mnemonic: "
      invalid == ErrorOf("Error", "Invalid mnemonic phrase")
  IN IF ~validateMnemonic(mnemonic)
       THEN Failed(WrapError(prefix, invalid), invalid, "", <<>>)
     ELSE IF ~keypair.ok
       THEN Failed(WrapError(prefix, keypair.error), keypair.error, "",
                   <<derivedSeed(mnemonic)>>)
     ELSE Fulfilled([publicKey |-> keypair.value.publicKey,
                     privateKey |-> keypair.value.privateKey,
                     mnemonic |-> mnemonic],
                    "", <<derivedSeed(mnemonic)>>)

\* new GenerateError(`Failed to generate wallet: ${error}`)
GenerateError(prefix, e) ==
  [class |-> "GenerateError", message |-> <<prefix, e.class>> \o e.message,
   cause |-> NoData]

\* generateWallet(): generateMnemonic draws the phrase of keypair draw, or
\* throws (draw 0) and the catch block wraps the error.  The promise of
\* keypairFromMnemonic is returned without await: when it rejects, the try
\* block has been left and the rejection reaches the caller as it is.
generateWalletKit(self, draw, subtle) ==
  LET keypair == keypairFromMnemonicKit(self, MnemonicOf(draw), subtle)
      prefix == "Failed to generate wallet: "
      entropy == ErrorOf("Error", "fail")
  IN IF draw = 0
       THEN Failed(GenerateError(prefix, entropy), entropy, "", <<>>)
     ELSE IF ~keypair.ok
       THEN Failed(keypair.error, NothingThrown, "", <<derivedSeed(MnemonicOf(draw))>>)
     ELSE Fulfilled([publicKey |-> keypair.value.publicKey,
                     privateKey |-> keypair.value.privateKey,
                     mnemonic |-> MnemonicOf(draw)],
                    "", <<derivedSeed(MnemonicOf(draw))>>)

\* The calls of the tests.  A call record holds the WalletManager object,
\* the operation, its argument and how it settled; manager keeps the two
\* latest.
BracketedOfLength(n) == jsonStringify([i \in 1..((n - 2) \div 2) |-> IF i = 1 THEN 10 ELSE 1])

OddKeyTexts ==
  {<<91, 49, 44, 50, 44, 51, 93>>,          \* [1,2,3]
   <<98, 97, 100, 75, 101, 121>>,           \* badKey
   <<110, 111, 45, 107, 101, 121>>,         \* no-key
   <<91, 120, 93>>}                         \* [x]

KitKeyInputs ==
  UNION {{bs58encode(SeedOf(k)), hexEncode(SeedOf(k)), jsonStringify(SeedOf(k)),
          jsonStringify(Pkcs8Of(k))} : k \in Keys}
    \cup OddKeyTexts
    \cup {BracketedOfLength(64), [i \in 1..64 |-> 122]}

Web3KeyInputs ==
  UNION {{SecretKeyText(k), hexEncode(SecretKeyOf(k)), jsonStringify(SecretKeyOf(k))}
         : k \in Keys}
    \cup OddKeyTexts
    \cup {BracketedOfLength(128), [i \in 1..128 |-> 122]}

\* importFromPrivateKey of each text, evaluated once
KitImports ==
  [self \in Instances |-> [privateKey \in KitKeyInputs |-> [subtle \in BOOLEAN |->
     importFromPrivateKeyKit(self, privateKey, subtle)]]]

Web3Imports == [privateKey \in Web3KeyInputs |-> importFromPrivateKey(privateKey)]

Logged(self, variant, op, input, result) ==
  SubSeq(<<[self |-> self, variant |-> variant, op |-> op, input |-> input,
            result |-> result]>> \o manager, 1, IF manager = <<>> THEN 1 ELSE 2)

CallGenerateWallet(self, draw, subtle) ==
  /\ manager' = Logged(self, "part_004", "generateWallet", draw,
                       generateWalletKit(self, draw, subtle))
  /\ UNCHANGED <<modelVars, storeCalls, handlerVars, cipher, sealed, balanceCalls, botVars>>

CallImportFromMnemonic(self, mnemonic, subtle) ==
  /\ manager' = Logged(self, "part_004", "importFromMnemonic", mnemonic,
                       importFromMnemonicKit(self, mnemonic, subtle))
  /\ UNCHANGED <<modelVars, storeCalls, handlerVars, cipher, sealed, balanceCalls, botVars>>

CallImportFromPrivateKey(self, privateKey, subtle) ==
  /\ manager' = Logged(self, "part_004", "importFromPrivateKey", privateKey,
                       KitImports[self][privateKey][subtle])
  /\ UNCHANGED <<modelVars, storeCalls, handlerVars, cipher, sealed, balanceCalls, botVars>>

CallImportFromSecretKey(self, privateKey) ==
  /\ manager' = Logged(self, "part_003", "importFromPrivateKey", privateKey,
                       Web3Imports[privateKey])
  /\ UNCHANGED <<modelVars, storeCalls, handlerVars, cipher, sealed, balanceCalls, botVars>>

(***************************************************************************)
(* WalletManager.getBalance, both variants.  A call runs up to the RPC     *)
(* request, and again when the request settles.  rpc is the list of        *)
(* addresses the call has sent to the ledger's balance endpoint.  A        *)
(* balance is kept as the fraction num / den: the bigint of part_004 has   *)
(* den 1, the number of part_003 is the quotient by LAMPORTS_PER_SOL.      *)
(***************************************************************************)
BalanceCallIds == {1, 2}

\* 1_000_000_000n
LAMPORTS_PER_SOL_BIG == 1000000000

\* what the balance endpoint may answer: lamports, 0 for an address never
\* funded
LedgerBalances == {0, 999999999, 1500000000, 2000000000}

\* the texts getBalance is called with: addresses of keypairs, 'invalid', ''
BalanceInputs ==
  {AddressOf(k) : k \in Keys}
    \cup {<<105, 110, 118, 97, 108, 105, 100>>, <<>>}

\* assertIsAddress(address) passing / new PublicKey(publicKey) not throwing
isValidAddress(address) == \E k \in Keys : address = AddressOf(k)

\* the string 'INVALID_ADDRESS' given as a cause
INVALID_ADDRESS == [class |-> "string", message |-> <<"INVALID_ADDRESS">>, cause |-> NoData]

\* new GetBalanceError(message, { cause })
GetBalanceError(message, cause) ==
  [class |-> "GetBalanceError", message |-> <<message>>, cause |-> cause]

IdleBalanceCall ==
  [pc |-> "idle", variant |-> "", publicKey |-> <<>>, rpc |-> <<>>, answer |-> -1,
   result |-> [status |-> "pending", value |-> NoData, error |-> NothingThrown]]

\* the final .catch of part_004's promise chain: whatever was thrown above
\* it, the GetBalanceError of the invalid address included, is wrapped
catchBalance(err) ==
  [status |-> "rejected", value |-> NoData,
   error |-> GetBalanceError("Failed to get balance", err)]

\* C22 mutant: the request sent before the address is looked at
requestBalanceFirst(call, variant, publicKey) ==
  [call EXCEPT !.pc = "awaitRpc", !.variant = variant, !.publicKey = publicKey,
               !.rpc = Append(call.rpc, publicKey)]

\* getBalance(publicKey) up to the RPC request.  part_004: the first .then
\* validates, then sends getBalance(pubKey), or throws the GetBalanceError
\* with cause 'INVALID_ADDRESS'.  part_003: new PublicKey(publicKey) throws
\* for an invalid address, inside the try block.
requestBalance(call, variant, publicKey) ==
  IF isValidAddress(publicKey)
    THEN [call EXCEPT !.pc = "awaitRpc", !.variant = variant, !.publicKey = publicKey,
                      !.rpc = Append(call.rpc, publicKey)]
  ELSE [call EXCEPT
          !.pc = "done", !.variant = variant, !.publicKey = publicKey,
          !.result =
             IF variant = "part_004"
               THEN catchBalance(GetBalanceError("Invalid address provided",
                                                 INVALID_ADDRESS))
               ELSE [status |-> "rejected", value |-> NoData,
                     error |-> WrapError("Failed to get balance: ",
                                         ErrorOf("Error", "Invalid public key input"))]]

\* C25 mutant: a division that rounds up
settleBalanceCeil(call, ok, lamports) ==
  [call EXCEPT !.pc = "done", !.answer = IF ok THEN lamports ELSE -1,
               !.result = IF ok
                            THEN [status |-> "resolved",
                                  value |-> [num |-> (lamports + 999999999) \div 1000000000,
                                             den |-> 1],
                                  error |-> NothingThrown]
                            ELSE catchBalance(ErrorOf("Error", "fetch failed"))]

\* C24 mutant: the raw value passed through
settleBalanceRaw(call, ok, lamports) ==
  [call EXCEPT !.pc = "done", !.answer = IF ok THEN lamports ELSE -1,
               !.result = IF ok
                            THEN [status |-> "resolved",
                                  value |-> [num |-> lamports, den |-> 1],
                                  error |-> NothingThrown]
                            ELSE catchBalance(ErrorOf("Error", "fetch failed"))]

\* the continuation when the RPC request settles: with lamports (ok), or
\* with a failure.  part_004: value.valueOf() / 1_000_000_000n, a bigint
\* division; part_003: balance / LAMPORTS_PER_SOL.
settleBalance(call, ok, lamports) ==
  [call EXCEPT
     !.pc = "done", !.answer = IF ok THEN lamports ELSE -1,
     !.result =
        IF ok
          THEN [status |-> "resolved",
                value |-> IF call.variant = "part_004"
                            THEN [num |-> lamports \div LAMPORTS_PER_SOL_BIG, den |-> 1]
                            ELSE [num |-> lamports, den |-> LAMPORTS_PER_SOL],
                error |-> NothingThrown]
        ELSE IF call.variant = "part_004"
          THEN catchBalance(ErrorOf("Error", "fetch failed"))
        ELSE [status |-> "rejected", value |-> NoData,
              error |-> WrapError("Failed to get balance: ",
                                  ErrorOf("Error", "fetch failed"))]]

GetBalance(c, variant, publicKey) ==
  /\ balanceCalls[c].pc = "idle"
  /\ balanceCalls' = [balanceCalls EXCEPT ![c] = requestBalance(@, variant, publicKey)]
  /\ UNCHANGED <<modelVars, storeCalls, handlerVars, cipher, sealed, manager, botVars>>

BalanceRpcSettled(c, ok, lamports) ==
  /\ balanceCalls[c].pc = "awaitRpc"
  /\ balanceCalls' = [balanceCalls EXCEPT ![c] = settleBalance(@, ok, lamports)]
  /\ UNCHANGED <<modelVars, storeCalls, handlerVars, cipher, sealed, manager, botVars>>

(***************************************************************************)
(* TelegramWalletHandler.  userWallets is a Map: a sequence of entries     *)
(* with distinct keys, in insertion order.                                 *)
(***************************************************************************)
HandlerCallIds == {1, 2}

MapIndex(map, key) ==
  LET hits == {i \in 1..Len(map) : map[i].key = key}
  IN  IF hits = {} THEN 0 ELSE CHOOSE i \in hits : \A j \in hits : i <= j

\* Map.prototype.get: the value, or undefined (NoData)
MapGet(map, key) ==
  IF MapIndex(map, key) = 0 THEN NoData ELSE map[MapIndex(map, key)].value

\* Map.prototype.set: the entry of the key replaced, or a new entry appended
MapSet(map, key, value) ==
  IF MapIndex(map, key) = 0
    THEN Append(map, [key |-> key, value |-> value])
    ELSE [map EXCEPT ![MapIndex(map, key)] = [key |-> key, value |-> value]]

\* a set that keeps the wallet the user already has
setIfAbsent(map, userId, wallet) ==
  IF MapIndex(map, userId) = 0 THEN MapSet(map, userId, wallet) ELSE map

\* a set that lays the new wallet's fields over those of the old one
setMerged(map, userId, wallet) ==
  LET old == MapGet(map, userId)
  IN  MapSet(map, userId,
             [f \in DOMAIN wallet \cup (DOMAIN old \ {"none"}) |->
                IF f \in DOMAIN wallet THEN wallet[f] ELSE old[f]])

\* this.userWallets.set(userId, wallet)
userWalletsSet(map, userId, wallet) == MapSet(map, userId, wallet)

\* getUserWallet(userId)
getUserWallet(map, userId) == MapGet(map, userId)

\* getUserKeypair(userId)
getUserKeypair(map, userId) ==
  IF MapGet(map, userId) = NoData THEN NoData
  ELSE getKeypair(MapGet(map, userId))

\* the phrases and key texts the users send
MnemonicInputs == {MnemonicOf(k) : k \in Keys} \cup {<<>>, <<120>>}
PrivateKeyInputs == {SecretKeyText(k) : k \in Keys} \cup {<<105>>}

IdleHandlerCall ==
  [pc |-> "idle", op |-> "", userId |-> 0, pending |-> Rejected(""),
   wallet |-> NoData, response |-> <<>>]

\* handleGenerateWallet(userId) up to its await
HandleGenerateWallet(c, userId, draw) ==
  /\ handlerCalls[c].pc = "idle"
  /\ handlerCalls' = [handlerCalls EXCEPT ![c] =
       [@ EXCEPT !.pc = "awaitWallet", !.op = "generate", !.userId = userId,
                 !.pending = generateWallet(draw)]]
  /\ UNCHANGED <<modelVars, storeCalls, userWallets, lastWrite, cipher, sealed, manager, balanceCalls, botVars>>

\* handleImportMnemonic(userId, mnemonic) up to its first await
HandleImportMnemonic(c, userId, mnemonic) ==
  /\ handlerCalls[c].pc = "idle"
  /\ handlerCalls' = [handlerCalls EXCEPT ![c] =
       [@ EXCEPT !.pc = "awaitWallet", !.op = "importMnemonic", !.userId = userId,
                 !.pending = importFromMnemonic(mnemonic)]]
  /\ UNCHANGED <<modelVars, storeCalls, userWallets, lastWrite, cipher, sealed, manager, balanceCalls, botVars>>

\* handleImportPrivateKey(userId, privateKey) up to its first await
HandleImportPrivateKey(c, userId, privateKey) ==
  /\ handlerCalls[c].pc = "idle"
  /\ handlerCalls' = [handlerCalls EXCEPT ![c] =
       [@ EXCEPT !.pc = "awaitWallet", !.op = "importPrivateKey", !.userId = userId,
                 !.pending = importFromPrivateKey(privateKey)]]
  /\ UNCHANGED <<modelVars, storeCalls, userWallets, lastWrite, cipher, sealed, manager, balanceCalls, botVars>>

\* C26 mutant: a continuation without the catch block: the rejection of
\* the wallet manager's promise leaves the handler, no response is made
HandleWalletSettledUncaught(c) ==
  LET call == handlerCalls[c]
  IN  /\ call.pc = "awaitWallet"
      /\ IF call.pending.status = "resolved"
           THEN /\ userWallets' = MapSet(userWallets, call.userId, call.pending.value)
                /\ lastWrite' = [lastWrite EXCEPT ![call.userId] = call.pending.value]
                /\ handlerCalls' = [handlerCalls EXCEPT ![c] =
                     [@ EXCEPT !.wallet = call.pending.value,
                               !.pc = IF call.op = "generate" THEN "done"
                                      ELSE "awaitBalance",
                               !.response = IF call.op = "generate"
                                              THEN <<"New wallet generated!",
                                                     call.pending.value>>
                                              ELSE <<>>]]
           ELSE /\ handlerCalls' = [handlerCalls EXCEPT ![c] = [@ EXCEPT !.pc = "done"]]
                /\ UNCHANGED <<userWallets, lastWrite>>
      /\ UNCHANGED <<modelVars, storeCalls, cipher, sealed, manager, balanceCalls, botVars>>

\* the continuation after the wallet manager's promise settles: the cache
\* write, then the response (generate) or the getBalance call (imports); a
\* rejection is caught and answered
HandleWalletSettled(c) ==
  LET call == handlerCalls[c]
  IN  /\ call.pc = "awaitWallet"
      /\ IF call.pending.status = "resolved"
           THEN /\ userWallets' = userWalletsSet(userWallets, call.userId,
                                                 call.pending.value)
                /\ lastWrite' = [lastWrite EXCEPT ![call.userId] = call.pending.value]
                /\ handlerCalls' = [handlerCalls EXCEPT ![c] =
                     [@ EXCEPT !.wallet = call.pending.value,
                               !.pc = IF call.op = "generate" THEN "done"
                                      ELSE "awaitBalance",
                               !.response = IF call.op = "generate"
                                              THEN <<"New wallet generated!",
                                                     call.pending.value>>
                                              ELSE <<>>]]
           ELSE /\ handlerCalls' = [handlerCalls EXCEPT ![c] =
                     [@ EXCEPT !.pc = "done",
                               !.response = IF call.op = "generate"
                                              THEN <<"Failed to generate wallet: ",
                                                     call.pending.error>>
                                              ELSE <<"Failed to import wallet: ",
                                                     call.pending.error>>]]
                /\ UNCHANGED <<userWallets, lastWrite>>
      /\ UNCHANGED <<modelVars, storeCalls, cipher, sealed, manager, balanceCalls, botVars>>

\* handleWalletInfo(userId) up to its await, or to its return when the user
\* has no wallet
HandleWalletInfo(c, userId) ==
  /\ handlerCalls[c].pc = "idle"
  /\ handlerCalls' = [handlerCalls EXCEPT ![c] =
       IF MapGet(userWallets, userId) = NoData
         THEN [@ EXCEPT !.pc = "done", !.op = "walletInfo", !.userId = userId,
                        !.response = <<"No wallet found. Please generate or import a wallet first.">>]
         ELSE [@ EXCEPT !.pc = "awaitBalance", !.op = "walletInfo", !.userId = userId,
                        !.wallet = MapGet(userWallets, userId)]]
  /\ UNCHANGED <<modelVars, storeCalls, userWallets, lastWrite, cipher, sealed, manager, balanceCalls, botVars>>

\* the continuation after getBalance settles
HandleBalanceSettled(c, answer) ==
  LET call == handlerCalls[c]
      balance == getBalance(call.wallet.publicKey, answer)
  IN  /\ call.pc = "awaitBalance"
      /\ handlerCalls' = [handlerCalls EXCEPT ![c] =
           [@ EXCEPT !.pc = "done", !.pending = balance,
                     !.response =
                        IF balance.status = "resolved"
                          THEN IF call.op = "walletInfo"
                                 THEN <<"Your Wallet Info:", call.wallet, balance.value>>
                                 ELSE <<"Wallet imported successfully!",
                                        call.wallet.publicKey, balance.value>>
                          ELSE IF call.op = "walletInfo"
                                 THEN <<"Failed to get wallet info: ", balance.error>>
                                 ELSE <<"Failed to import wallet: ", balance.error>>]]
      /\ UNCHANGED <<modelVars, storeCalls, userWallets, lastWrite, cipher, sealed, manager, balanceCalls, botVars>>

(***************************************************************************)
(* encrypt and decrypt under their callers: a buffer comes from encrypt or *)
(* from Buffer.alloc, may have one byte altered or be cut short, and is    *)
(* handed to decrypt.                                                      *)
(***************************************************************************)
PlainChars == {65, 233}
Plaintexts == UNION {[1..n -> PlainChars] : n \in 0..MaxPlainLen}

HEADER_LEN == SALT_LEN + IV_LEN + AUTH_TAG_LEN

NoResult == [status |-> "pending", error |-> "", value |-> <<>>, ops |-> <<>>]

IdleCipher ==
  [pc |-> "idle", origin |-> "", plaintext |-> <<>>, password |-> 0,
   envelope |-> <<>>, tamper |-> "none", usedPassword |-> 0, result |-> NoResult]

\* await encrypt(plaintext, password)
Encrypt(plaintext, password, saltDraw, ivDraw, scryptErr) ==
  LET r == encrypt(plaintext, password, saltDraw, ivDraw, scryptErr)
  IN  /\ cipher.pc = "idle"
      /\ cipher' = [IdleCipher EXCEPT
           !.pc = IF r.status = "resolved" THEN "buffer" ELSE "encryptRejected",
           !.origin = "encrypt", !.plaintext = plaintext, !.password = password,
           !.envelope = r.value,
           !.result = [status |-> r.status, error |-> r.error, value |-> <<>>,
                       ops |-> <<>>]]
      /\ UNCHANGED <<modelVars, storeCalls, handlerVars, sealed, manager, balanceCalls, botVars>>

\* Buffer.alloc(size): size zero bytes
Alloc(size) ==
  /\ cipher.pc = "idle"
  /\ cipher' = [IdleCipher EXCEPT !.pc = "buffer", !.origin = "alloc",
                                  !.envelope = [i \in 1..size |-> Plain(0)]]
  /\ UNCHANGED <<modelVars, storeCalls, handlerVars, sealed, manager, balanceCalls, botVars>>

\* encrypted[i] = encrypted[i] ^ mask
AlterByte(i, mask) ==
  /\ cipher.pc = "buffer" /\ cipher.origin = "encrypt" /\ cipher.tamper = "none"
  /\ i \in 0..(Len(cipher.envelope) - 1)
  /\ cipher' = [cipher EXCEPT !.tamper = "altered",
                  !.envelope[i + 1] = Plain(Xor(cipher.envelope[i + 1].n, mask))]
  /\ UNCHANGED <<modelVars, storeCalls, handlerVars, sealed, manager, balanceCalls, botVars>>

\* encrypted.subarray(0, end), end short of the length
Truncate(end) ==
  /\ cipher.pc = "buffer" /\ cipher.origin = "encrypt" /\ cipher.tamper = "none"
  /\ end \in 0..(Len(cipher.envelope) - 1)
  /\ cipher' = [cipher EXCEPT !.tamper = "truncated",
                              !.envelope = subarray(cipher.envelope, 0, end)]
  /\ UNCHANGED <<modelVars, storeCalls, handlerVars, sealed, manager, balanceCalls, botVars>>

\* await decrypt(buffer, password)
Decrypt(password, scryptErr) ==
  /\ cipher.pc = "buffer"
  /\ cipher' = [cipher EXCEPT !.pc = "decrypted", !.usedPassword = password,
                              !.result = decrypt(cipher.envelope, password, scryptErr)]
  /\ UNCHANGED <<modelVars, storeCalls, handlerVars, sealed, manager, balanceCalls, botVars>>

(***************************************************************************)
(* encrypt called twice with one plaintext and one password, and           *)
(* decrypt of what it returned under the same password.  crypto.randomBytes *)
(* is a cryptographic generator: a draw never repeats an earlier draw.     *)
(* scrypt is given valid parameters here and resolves.                     *)
(***************************************************************************)
CodeUnits == PlainChars \cup {55357, 56832}
Strings == UNION {[1..n -> CodeUnits] : n \in 0..MaxPlainLen}

\* the encrypt calls made on the one input: result1 and result2
EncryptCalls == {1, 2}

NothingSealed == [plaintext |-> <<>>, password |-> 0, envelopes |-> <<>>]

\* const result1 = await encrypt(plaintext, password)
Seal(plaintext, password, saltDraw, ivDraw) ==
  LET r == encrypt(plaintext, password, saltDraw, ivDraw, FALSE)
  IN  /\ sealed.envelopes = <<>>
      /\ r.status = "resolved"
      /\ sealed' = [plaintext |-> plaintext, password |-> password,
                    envelopes |-> <<[saltDraw |-> saltDraw, ivDraw |-> ivDraw,
                                     value |-> r.value, back |-> NoResult]>>]
      /\ UNCHANGED <<modelVars, storeCalls, handlerVars, cipher, manager, balanceCalls, botVars>>

\* const result2 = await encrypt(plaintext, password): the same arguments
\* again, the generator drawing anew
SealAgain(saltDraw, ivDraw) ==
  LET r == encrypt(sealed.plaintext, sealed.password, saltDraw, ivDraw, FALSE)
  IN  /\ sealed.envelopes # <<>>
      /\ Len(sealed.envelopes) + 1 \in EncryptCalls
      /\ \A i \in 1..Len(sealed.envelopes) :
           /\ sealed.envelopes[i].saltDraw # saltDraw
           /\ sealed.envelopes[i].ivDraw # ivDraw
      /\ r.status = "resolved"
      /\ sealed' = [sealed EXCEPT !.envelopes = Append(@,
                       [saltDraw |-> saltDraw, ivDraw |-> ivDraw,
                        value |-> r.value, back |-> NoResult])]
      /\ UNCHANGED <<modelVars, storeCalls, handlerVars, cipher, manager, balanceCalls, botVars>>

\* const decrypted = await decrypt(encrypted, password)
Unseal(i) ==
  /\ i \in 1..Len(sealed.envelopes)
  /\ sealed.envelopes[i].back = NoResult
  /\ sealed' = [sealed EXCEPT !.envelopes[i].back =
                  decrypt(sealed.envelopes[i].value, sealed.password, FALSE)]
  /\ UNCHANGED <<modelVars, storeCalls, handlerVars, cipher, manager, balanceCalls, botVars>>

(***************************************************************************)
(* The Telegram bot (index.ts and commands/wallet.ts).  Update b is the    *)
(* b-th update the bot receives and the id of the chat message that        *)
(* carries it; the handlers of several updates interleave at their awaits. *)
(* index.ts holds two versions of the wiring: the first registers the text *)
(* middleware inside the /import command, the second once, before launch.  *)
(***************************************************************************)
BotUpdateIds == {1, 2, 3}
BotVersions == {"index_v1", "index_v2"}

\* UserStates.AWAITING_IMPORT
AWAITING_IMPORT == "awaiting_import"

\* Map.prototype.delete
MapDelete(map, key) ==
  IF MapIndex(map, key) = 0 THEN map
  ELSE SubSeq(map, 1, MapIndex(map, key) - 1)
         \o SubSeq(map, MapIndex(map, key) + 1, Len(map))

\* userStates.get(userId) === UserStates.AWAITING_IMPORT
awaitingImport(map, userId) ==
  MapIndex(map, userId) # 0 /\ map[MapIndex(map, userId)].value = AWAITING_IMPORT

\* the classes \w and \s of a regular expression, on ASCII text
IsWordChar(c) == c \in (48..57) \cup (65..90) \cup (97..122) \cup {95}
IsSpace(c) == c \in {9, 10, 11, 12, 13, 32}

\* String.prototype.trim
trim(text) ==
  LET kept == {i \in 1..Len(text) : ~IsSpace(text[i])}
  IN  IF kept = {} THEN <<>>
      ELSE SubSeq(text, CHOOSE i \in kept : \A j \in kept : i <= j,
                        CHOOSE i \in kept : \A j \in kept : j <= i)

\* /^(\w+\s){11,23}\w+$/.test(input): 12 to 24 words, one whitespace
\* character between two words
mnemonicPattern(input) ==
  /\ Len(input) >= 1
  /\ \A i \in 1..Len(input) : IsWordChar(input[i]) \/ IsSpace(input[i])
  /\ IsWordChar(input[1]) /\ IsWordChar(input[Len(input)])
  /\ \A i \in 1..(Len(input) - 1) : ~(IsSpace(input[i]) /\ IsSpace(input[i + 1]))
  /\ Cardinality({i \in 1..Len(input) : IsSpace(input[i])}) \in 11..23

\* n words 'w' with a space between two
Words(n) == [i \in 1..(2 * n - 1) |-> IF i % 2 = 1 THEN 119 ELSE 32]

\* the texts the users send: a recovery phrase followed by a newline, a
\* base58 key between spaces, twelve words that are no phrase, eleven
\* words, and 'badKey'
BotTexts ==
  {MnemonicOf(1) \o <<10>>,
   <<32>> \o Base58Texts[SeedOf(1)] \o <<32>>,
   Words(12),
   Words(11),
   <<98, 97, 100, 75, 101, 121>>}

\* the import the text middleware makes of the trimmed text, on a new
\* WalletManager
importOfInput(input, subtle) ==
  LET r == IF mnemonicPattern(input)
             THEN importFromMnemonicKit(1, input, subtle)
             ELSE importFromPrivateKeyKit(1, input, subtle)
  IN  [status |-> r.status, value |-> r.value, error |-> r.error]

\* importOfInput of each text, evaluated once
BotImports ==
  [text \in BotTexts |-> [subtle \in BOOLEAN |-> importOfInput(trim(text), subtle)]]

NoImport == [status |-> "none", value |-> NoData, error |-> NothingThrown]

\* One update's handling: kind is "import" (the /import command) or "text";
\* route is what the text middleware made of the text: "secret", "next"
\* (handed to next()) or "unhandled" (no text middleware registered);
\* branch is the import it chose; storeCall the store call it made (0:
\* none); replies the ctx.reply calls that succeeded; outcome how the
\* handler's promise settled.
IdleUpdate ==
  [pc |-> "idle", kind |-> "", userId |-> 0, route |-> "", input |-> <<>>,
   branch |-> "", imported |-> NoImport, storeCall |-> 0, replies |-> <<>>,
   outcome |-> ""]

\* updates arrive in the order of their ids
NextUpdate(b) ==
  /\ botVersion # "none"
  /\ botUpdates[b].pc = "idle"
  /\ \A a \in BotUpdateIds : a < b => botUpdates[a].pc # "idle"

\* bot.launch() of one of the two versions of index.ts
BotLaunch(version) ==
  /\ botVersion = "none"
  /\ botVersion' = version
  /\ textHandlers' = IF version = "index_v2" THEN 1 ELSE 0
  /\ UNCHANGED <<modelVars, storeCalls, handlerVars, cipher, sealed, manager,
                 balanceCalls, userStates, chat, botUpdates>>

\* bot.command('import'): handleImportCommand up to its await ctx.reply;
\* the first version of index.ts also registers a text middleware
BotImportCommand(b, userId) ==
  /\ NextUpdate(b)
  /\ botUpdates' = [botUpdates EXCEPT ![b] =
       [@ EXCEPT !.pc = "awaitPrompt", !.kind = "import", !.userId = userId]]
  /\ textHandlers' = IF botVersion = "index_v1" THEN textHandlers + 1
                     ELSE textHandlers
  /\ chat' = [chat EXCEPT ![b] = "sent"]
  /\ UNCHANGED <<modelVars, storeCalls, handlerVars, cipher, sealed, manager,
                 balanceCalls, botVersion, userStates>>

\* handleImportCommand after ctx.reply settled: userStates.set, or the
\* rejection leaves the function
BotPromptSettled(b, ok) ==
  /\ botUpdates[b].pc = "awaitPrompt"
  /\ botUpdates' = [botUpdates EXCEPT ![b] =
       [@ EXCEPT !.pc = "done",
                 !.replies = IF ok THEN <<"prompt">> ELSE <<>>,
                 !.outcome = IF ok THEN "returned" ELSE "rejected"]]
  /\ userStates' = IF ok THEN MapSet(userStates, botUpdates[b].userId, AWAITING_IMPORT)
                   ELSE userStates
  /\ UNCHANGED <<modelVars, storeCalls, handlerVars, cipher, sealed, manager,
                 balanceCalls, botVersion, textHandlers, chat>>

\* C30 mutant: a text middleware that does not look at the user's state
BotTextMessageAlways(b, userId, text, subtle) ==
  /\ NextUpdate(b)
  /\ chat' = [chat EXCEPT ![b] = "sent"]
  /\ botUpdates' = [botUpdates EXCEPT ![b] =
       IF textHandlers = 0
         THEN [@ EXCEPT !.pc = "done", !.kind = "text", !.userId = userId,
                        !.route = "unhandled", !.outcome = "returned"]
       ELSE [@ EXCEPT !.pc = "awaitImport", !.kind = "text", !.userId = userId,
                      !.route = "secret", !.input = trim(text),
                      !.branch = IF mnemonicPattern(trim(text))
                                   THEN "importFromMnemonic"
                                   ELSE "importFromPrivateKey",
                      !.imported = BotImports[text][subtle]]]
  /\ UNCHANGED <<modelVars, storeCalls, handlerVars, cipher, sealed, manager,
                 balanceCalls, botVersion, textHandlers, userStates>>

\* bot.on('text'), handleImportWalletTextMessage up to its first await:
\* a text of a user who is not awaited goes to next() (from each registered
\* copy of the middleware to the one after it); the text of an awaited user
\* is trimmed and imported as a phrase or as a private key
BotTextMessage(b, userId, text, subtle) ==
  /\ NextUpdate(b)
  /\ chat' = [chat EXCEPT ![b] = "sent"]
  /\ botUpdates' = [botUpdates EXCEPT ![b] =
       IF textHandlers = 0
         THEN [@ EXCEPT !.pc = "done", !.kind = "text", !.userId = userId,
                        !.route = "unhandled", !.outcome = "returned"]
       ELSE IF awaitingImport(userStates, userId)
         THEN [@ EXCEPT !.pc = "awaitImport", !.kind = "text", !.userId = userId,
                        !.route = "secret", !.input = trim(text),
                        !.branch = IF mnemonicPattern(trim(text))
                                     THEN "importFromMnemonic"
                                     ELSE "importFromPrivateKey",
                        !.imported = BotImports[text][subtle]]
       ELSE [@ EXCEPT !.pc = "done", !.kind = "text", !.userId = userId,
                      !.route = "next", !.outcome = "returned"]]
  /\ UNCHANGED <<modelVars, storeCalls, handlerVars, cipher, sealed, manager,
                 balanceCalls, botVersion, textHandlers, userStates>>

\* the store calls that have not been made yet
FreeStoreCalls == {c \in StoreCallIds : storeCalls[c].pc = "idle"}

\* after the import settled: walletManager.store(wallet, userId) up to its
\* first await, or the catch block's ctx.reply
BotImportSettled(b) ==
  /\ botUpdates[b].pc = "awaitImport"
  /\ IF botUpdates[b].imported.status = "resolved"
       THEN /\ FreeStoreCalls # {}
            /\ LET c == CHOOSE x \in FreeStoreCalls : \A y \in FreeStoreCalls : x <= y
                   wallet == botUpdates[b].imported.value
               IN  /\ storeCalls' = [storeCalls EXCEPT ![c] =
                        [@ EXCEPT !.pc = "encryptKey", !.wallet = wallet,
                                  !.userId = botUpdates[b].userId,
                                  !.privateKey = exportKeyPair(wallet)[1],
                                  !.publicKey = exportKeyPair(wallet)[2]]]
                   /\ botUpdates' = [botUpdates EXCEPT ![b] =
                        [@ EXCEPT !.pc = "awaitStore", !.storeCall = c]]
       ELSE /\ botUpdates' = [botUpdates EXCEPT ![b] = [@ EXCEPT !.pc = "awaitErrorReply"]]
            /\ UNCHANGED storeCalls
  /\ UNCHANGED <<modelVars, handlerVars, cipher, sealed, manager, balanceCalls,
                 botVersion, textHandlers, userStates, chat>>

\* after store settled: ctx.deleteMessage(ctx.message.message_id), or the
\* catch block's ctx.reply
BotStoreSettled(b) ==
  /\ botUpdates[b].pc = "awaitStore"
  /\ storeCalls[botUpdates[b].storeCall].pc = "done"
  /\ botUpdates' = [botUpdates EXCEPT ![b] =
       [@ EXCEPT !.pc = IF storeCalls[botUpdates[b].storeCall].result.status = "resolved"
                          THEN "awaitDelete" ELSE "awaitErrorReply"]]
  /\ UNCHANGED <<modelVars, storeCalls, handlerVars, cipher, sealed, manager,
                 balanceCalls, botVersion, textHandlers, userStates, chat>>

\* after deleteMessage settled: the message is gone and the success reply
\* is sent, or the catch block's ctx.reply
BotDeleteSettled(b, ok) ==
  /\ botUpdates[b].pc = "awaitDelete"
  /\ chat' = IF ok THEN [chat EXCEPT ![b] = "deleted"] ELSE chat
  /\ botUpdates' = [botUpdates EXCEPT ![b] =
       [@ EXCEPT !.pc = IF ok THEN "awaitReply" ELSE "awaitErrorReply"]]
  /\ UNCHANGED <<modelVars, storeCalls, handlerVars, cipher, sealed, manager,
                 balanceCalls, botVersion, textHandlers, userStates>>

\* after the success reply settled: finally and return, or the catch
\* block's ctx.reply
BotReplySettled(b, ok) ==
  /\ botUpdates[b].pc = "awaitReply"
  /\ botUpdates' = [botUpdates EXCEPT ![b] =
       IF ok THEN [@ EXCEPT !.pc = "done", !.replies = Append(@, "imported"),
                            !.outcome = "returned"]
       ELSE [@ EXCEPT !.pc = "awaitErrorReply"]]
  /\ userStates' = IF ok THEN MapDelete(userStates, botUpdates[b].userId)
                   ELSE userStates
  /\ UNCHANGED <<modelVars, storeCalls, handlerVars, cipher, sealed, manager,
                 balanceCalls, botVersion, textHandlers, chat>>

\* C28 mutant: a handler whose failure path does not reach
\* userStates.delete
BotErrorReplySettledKeepState(b, ok) ==
  /\ botUpdates[b].pc = "awaitErrorReply"
  /\ botUpdates' = [botUpdates EXCEPT ![b] =
       [@ EXCEPT !.pc = "done",
                 !.replies = IF ok THEN Append(@, "error") ELSE @,
                 !.outcome = IF ok THEN "returned" ELSE "rejected"]]
  /\ UNCHANGED <<modelVars, storeCalls, handlerVars, cipher, sealed, manager,
                 balanceCalls, botVersion, textHandlers, userStates, chat>>

\* after the catch block's ctx.reply settled: finally, then the return, or
\* the reply's rejection leaves the handler
BotErrorReplySettled(b, ok) ==
  /\ botUpdates[b].pc = "awaitErrorReply"
  /\ botUpdates' = [botUpdates EXCEPT ![b] =
       [@ EXCEPT !.pc = "done",
                 !.replies = IF ok THEN Append(@, "error") ELSE @,
                 !.outcome = IF ok THEN "returned" ELSE "rejected"]]
  /\ userStates' = MapDelete(userStates, botUpdates[b].userId)
  /\ UNCHANGED <<modelVars, storeCalls, handlerVars, cipher, sealed, manager,
                 balanceCalls, botVersion, textHandlers, chat>>

vars == <<schema, wallets, modelResult, storeCalls, userWallets, lastWrite,
          handlerCalls, cipher, sealed, manager, balanceCalls, botVersion,
          textHandlers, userStates, chat, botUpdates>>

Init ==
  /\ schema \in SchemaVersions
  /\ wallets = <<>>
  /\ modelResult = Pending
  /\ storeCalls = [c \in StoreCallIds |-> IdleCall]
  /\ userWallets = <<>>
  /\ lastWrite = [u \in UserIds |-> NoData]
  /\ handlerCalls = [c \in HandlerCallIds |-> IdleHandlerCall]
  /\ cipher = IdleCipher
  /\ sealed = NothingSealed
  /\ manager = <<>>
  /\ balanceCalls = [c \in BalanceCallIds |-> IdleBalanceCall]
  /\ botVersion = "none"
  /\ textHandlers = 0
  /\ userStates = <<>>
  /\ chat = [b \in BotUpdateIds |-> "none"]
  /\ botUpdates = [b \in BotUpdateIds |-> IdleUpdate]

(***************************************************************************)
(* Spec: the Wallet collection under its direct callers.                   *)
(***************************************************************************)
Next ==
  \/ \E data \in DirectData : CreateAndSave(data)
  \/ \E u \in UserIds : FindByUserId(u)

Spec == Init /\ [][Next]_vars

(***************************************************************************)
(* StoreSpec: two WalletManager.store calls interleaved at their awaits,   *)
(* and retrieve.                                                           *)
(***************************************************************************)
StoreNext ==
  \/ \E c \in StoreCallIds, w \in WalletInfos, u \in UserIds : StoreExport(c, w, u)
  \/ \E c \in StoreCallIds, d \in StoreDraws : StoreEncryptKey(c, d)
  \/ \E c \in StoreCallIds, d \in StoreDraws : StoreEncryptMnemonic(c, d)
  \/ \E c \in StoreCallIds : StoreEncryptFails(c)
  \/ \E c \in StoreCallIds : StoreSave(c)
  \/ \E u \in UserIds : Retrieve(u)

StoreSpec == Init /\ [][StoreNext]_vars

(***************************************************************************)
(* HandlerSpec: two TelegramWalletHandler calls on one handler instance,   *)
(* interleaved at their awaits.                                            *)
(***************************************************************************)
HandlerNext ==
  \/ \E c \in HandlerCallIds, u \in UserIds, k \in Keys \cup {0} :
       HandleGenerateWallet(c, u, k)
  \/ \E c \in HandlerCallIds, u \in UserIds, m \in MnemonicInputs :
       HandleImportMnemonic(c, u, m)
  \/ \E c \in HandlerCallIds, u \in UserIds, t \in PrivateKeyInputs :
       HandleImportPrivateKey(c, u, t)
  \/ \E c \in HandlerCallIds, u \in UserIds : HandleWalletInfo(c, u)
  \/ \E c \in HandlerCallIds : HandleWalletSettled(c)
  \/ \E c \in HandlerCallIds, a \in RpcAnswers : HandleBalanceSettled(c, a)

HandlerSpec == Init /\ [][HandlerNext]_vars

(***************************************************************************)
(* CipherSpec: one buffer from encrypt or Buffer.alloc to decrypt.         *)
(***************************************************************************)
BitMasks == {1, 255}

CipherNext ==
  \/ \E s \in Plaintexts, p \in Passwords, sd \in RandomDraws, id \in RandomDraws,
        e \in BOOLEAN : Encrypt(s, p, sd, id, e)
  \/ \E size \in 0..(HEADER_LEN + MaxPlainLen) : Alloc(size)
  \/ \E i \in 0..(HEADER_LEN + 2 * MaxPlainLen), m \in BitMasks : AlterByte(i, m)
  \/ \E end \in 0..(HEADER_LEN + 2 * MaxPlainLen) : Truncate(end)
  \/ \E p \in Passwords, e \in BOOLEAN : Decrypt(p, e)

CipherSpec == Init /\ [][CipherNext]_vars

(***************************************************************************)
(* SealSpec: encrypt called twice on one input, and decrypt of each        *)
(* envelope.                                                               *)
(***************************************************************************)
SealNext ==
  \/ \E s \in Strings, p \in Passwords, sd \in RandomDraws, id \in RandomDraws :
       Seal(s, p, sd, id)
  \/ \E sd \in RandomDraws, id \in RandomDraws : SealAgain(sd, id)
  \/ \E i \in EncryptCalls : Unseal(i)

SealSpec == Init /\ [][SealNext]_vars

ManagerNext ==
  \/ \E self \in Instances, draw \in {0} \cup Keys, subtle \in BOOLEAN :
       CallGenerateWallet(self, draw, subtle)
  \/ \E self \in Instances, mnemonic \in MnemonicInputs, subtle \in BOOLEAN :
       CallImportFromMnemonic(self, mnemonic, subtle)
  \/ \E self \in Instances, privateKey \in KitKeyInputs, subtle \in BOOLEAN :
       CallImportFromPrivateKey(self, privateKey, subtle)
  \/ \E self \in Instances, privateKey \in Web3KeyInputs :
       CallImportFromSecretKey(self, privateKey)

ManagerSpec == Init /\ [][ManagerNext]_vars

BalanceNext ==
  \/ \E c \in BalanceCallIds, variant \in {"part_003", "part_004"},
        publicKey \in BalanceInputs : GetBalance(c, variant, publicKey)
  \/ \E c \in BalanceCallIds, lamports \in LedgerBalances :
       BalanceRpcSettled(c, TRUE, lamports)
  \/ \E c \in BalanceCallIds : BalanceRpcSettled(c, FALSE, 0)

BalanceSpec == Init /\ [][BalanceNext]_vars

(***************************************************************************)
(* BotSpec: the bot under three updates of its users, the store calls it   *)
(* makes included.                                                         *)
(***************************************************************************)
BotNext ==
  \/ \E version \in BotVersions : BotLaunch(version)
  \/ \E b \in BotUpdateIds, u \in UserIds : BotImportCommand(b, u)
  \/ \E b \in BotUpdateIds, ok \in BOOLEAN : BotPromptSettled(b, ok)
  \/ \E b \in BotUpdateIds, u \in UserIds, text \in BotTexts, subtle \in BOOLEAN :
       BotTextMessage(b, u, text, subtle)
  \/ \E b \in BotUpdateIds : BotImportSettled(b)
  \/ \E c \in StoreCallIds, d \in StoreDraws : StoreEncryptKey(c, d)
  \/ \E c \in StoreCallIds, d \in StoreDraws : StoreEncryptMnemonic(c, d)
  \/ \E c \in StoreCallIds : StoreEncryptFails(c)
  \/ \E c \in StoreCallIds : StoreSave(c)
  \/ \E b \in BotUpdateIds : BotStoreSettled(b)
  \/ \E b \in BotUpdateIds, ok \in BOOLEAN : BotDeleteSettled(b, ok)
  \/ \E b \in BotUpdateIds, ok \in BOOLEAN : BotReplySettled(b, ok)
  \/ \E b \in BotUpdateIds, ok \in BOOLEAN : BotErrorReplySettled(b, ok)

BotSpec == Init /\ [][BotNext]_vars

(***************************************************************************)
(* Properties of the Wallet collection and of WalletManager.store.         *)
(***************************************************************************)
MissingFields(data) == {f \in RequiredFields : f \notin DOMAIN data}

\* the stored documents that hold the same value as data in field f
SameField(coll, data, f) ==
  {i \in 1..Len(coll) : f \in DOMAIN data /\ coll[i][f] = data[f]}

DuplicateError(field) ==
  [name |-> "Error", code |-> 0, message |-> "Duplicate value for field: ",
   fields |-> {field}]

\* C1: no two stored wallet records share the same userId, the same address
\* or the same encryptedPrivateKey.
C1_UniqueRecords ==
  \A i, j \in 1..Len(wallets) :
    i # j => /\ wallets[i].userId # wallets[j].userId
             /\ wallets[i].address # wallets[j].address
             /\ wallets[i].encryptedPrivateKey # wallets[j].encryptedPrivateKey

\* C2: createAndSave of a record whose address (or whose encryptedPrivateKey)
\* equals that of a stored record, its other unique fields being new, fails
\* with the duplicate-field error that names exactly that field, and leaves
\* the stored records as they were.
C2_DuplicateRejected ==
  [][\A data \in DirectData, f \in {"address", "encryptedPrivateKey"} :
       (/\ CreateAndSave(data)
        /\ MissingFields(data) = {}
        /\ SameField(wallets, data, f) # {}
        /\ \A g \in RequiredFields \ {f} : SameField(wallets, data, g) = {})
       => /\ modelResult'.status = "rejected"
          /\ modelResult'.error = DuplicateError(f)
          /\ wallets' = wallets]_vars

\* C3: when the two store calls are for the same address and both have made
\* their createAndSave call, exactly one has succeeded and stored a record
\* and the other has failed with a duplicate-field error.
C3_ExactlyOneSucceeds ==
  (/\ \A c \in StoreCallIds : storeCalls[c].pc = "done" /\ storeCalls[c].data # NoData
   /\ storeCalls[1].publicKey = storeCalls[2].publicKey)
  => \E c, d \in StoreCallIds :
       /\ c # d
       /\ storeCalls[c].result.status = "resolved"
       /\ wallets[storeCalls[c].result.id] = storeCalls[c].data
       /\ storeCalls[d].result.status = "rejected"
       /\ storeCalls[d].result.error.message = "Duplicate value for field: "
       /\ Len(wallets) = 1

\* C4: createAndSave of a record that lacks a required field fails with the
\* validation error that names the missing fields, and stores nothing.
C4_ValidationRejected ==
  [][\A data \in DirectData :
       (CreateAndSave(data) /\ MissingFields(data) # {})
       => /\ modelResult'.status = "rejected"
          /\ modelResult'.error.name = "ValidationError"
          /\ modelResult'.error.message = "Wallet validation failed"
          /\ modelResult'.error.fields = MissingFields(data)
          /\ wallets' = wallets]_vars

C4_Witness ==
  /\ modelResult.op = "createAndSave"
  /\ modelResult.status = "rejected"
  /\ modelResult.error.name = "ValidationError"
  /\ modelResult.error.fields = {"userId"}
  /\ Len(wallets) = 1

\* the secrets store is given: exported private keys and mnemonics
StoreSecrets ==
  {exportKeyPair(w)[1] : w \in WalletInfos}
    \cup {w.mnemonic : w \in {x \in WalletInfos : HasMnemonic(x)}}

\* per secret, the base64 texts of the envelopes encrypt(secret, PASSWORD)
\* can return
EnvelopeTable ==
  [secret \in StoreSecrets |->
     {toBase64(encrypt(secret, PASSWORD, s, i, FALSE).value) :
        s \in RandomDraws, i \in RandomDraws}]

EnvelopesOf(secret) == EnvelopeTable[secret]

\* C5: what store passes to createAndSave, and what is stored, holds the
\* private key and the mnemonic only as the base64 text of an
\* encrypt(secret, PASSWORD) envelope, never as they are.
C5_NoCleartextStored ==
  \A c \in StoreCallIds :
    LET call == storeCalls[c]
    IN  call.data # NoData =>
          /\ call.data.encryptedPrivateKey \in EnvelopesOf(call.privateKey)
          /\ call.data.encryptedPrivateKey # call.privateKey
          /\ call.data.encryptedPrivateKey # base64(utf8Encode(call.privateKey))
          /\ ("encryptedMnemonic" \in DOMAIN call.data) = HasMnemonic(call.wallet)
          /\ HasMnemonic(call.wallet) =>
               /\ call.data.encryptedMnemonic \in EnvelopesOf(call.wallet.mnemonic)
               /\ call.data.encryptedMnemonic # call.wallet.mnemonic
          /\ call.result.status = "resolved" => wallets[call.result.id] = call.data

C5_Witness ==
  \E c \in StoreCallIds :
    /\ storeCalls[c].pc = "done"
    /\ storeCalls[c].result.status = "resolved"
    /\ HasMnemonic(storeCalls[c].wallet)
    /\ wallets[storeCalls[c].result.id].encryptedMnemonic
         \in EnvelopesOf(storeCalls[c].wallet.mnemonic)

\* C6: a stored record is never updated in place and never deleted: every
\* step of store, retrieve, createAndSave and findByUserId leaves every
\* record present, at its place, with the same fields.
C6_RecordsKept ==
  [][\A i \in 1..Len(wallets) :
       i <= Len(wallets') /\ wallets'[i] = wallets[i]]_vars

C6_Witness ==
  /\ Len(wallets) = 1
  /\ \A c \in StoreCallIds : storeCalls[c].pc = "done"
  /\ \E c \in StoreCallIds : storeCalls[c].result.status = "rejected"
                             /\ storeCalls[c].data # NoData

(***************************************************************************)
(* Properties of the session cache (HandlerSpec)                           *)
(***************************************************************************)
\* C7: the session cache holds at most one entry per user id;
\* getUserWallet(u) is the wallet of the latest cache write for u, or absent
\* when there was none, and then getUserKeypair(u) is absent too.
C7_LatestWriteOrAbsent ==
  /\ \A i, j \in 1..Len(userWallets) :
       userWallets[i].key = userWallets[j].key => i = j
  /\ \A u \in UserIds :
       /\ getUserWallet(userWallets, u) = lastWrite[u]
       /\ lastWrite[u] = NoData => getUserKeypair(userWallets, u) = NoData
       /\ lastWrite[u] # NoData =>
            getUserKeypair(userWallets, u) = getKeypair(lastWrite[u])

\* a second write for a user has replaced the first, while another user has
\* no entry
C7_Witness ==
  \E u \in UserIds, v \in UserIds :
    /\ handlerCalls[1].userId = u /\ handlerCalls[2].userId = u
    /\ handlerCalls[1].wallet # NoData /\ handlerCalls[2].wallet # NoData
    /\ handlerCalls[1].op # "walletInfo" /\ handlerCalls[2].op # "walletInfo"
    /\ handlerCalls[1].wallet # handlerCalls[2].wallet
    /\ getUserWallet(userWallets, u) = handlerCalls[2].wallet
    /\ Len(userWallets) = 1
    /\ v # u /\ getUserWallet(userWallets, v) = NoData

\* the wallets the generate and import operations can produce
CompleteWallets ==
  {generateWallet(k).value : k \in Keys}
    \cup {importFromPrivateKey(SecretKeyText(k)).value : k \in Keys}

WriterOf(c, u) ==
  /\ handlerCalls[c].userId = u
  /\ handlerCalls[c].op \in {"generate", "importMnemonic", "importPrivateKey"}
  /\ handlerCalls[c].wallet # NoData

\* C8: a step of a call for one user leaves every other user's cache entry
\* as it was; and a user's entry is always the whole wallet of one of the
\* generate/import calls made for that user, the one that wrote last.
C8_IsolatedLastWriteWins ==
  /\ [][\A c \in HandlerCallIds, u2 \in UserIds :
          (handlerCalls'[c] # handlerCalls[c] /\ handlerCalls'[c].userId # u2)
            => getUserWallet(userWallets', u2) = getUserWallet(userWallets, u2)]_vars
  /\ [](\A u \in UserIds :
          getUserWallet(userWallets, u) # NoData =>
            /\ getUserWallet(userWallets, u) \in CompleteWallets
            /\ getUserWallet(userWallets, u) = lastWrite[u]
            /\ \E c \in HandlerCallIds :
                 WriterOf(c, u) /\ handlerCalls[c].wallet = getUserWallet(userWallets, u))

\* two calls for the same user were in flight together and wrote different
\* wallets (call 1 is still awaiting its balance, call 2 wrote after it),
\* and the cache holds the wallet of call 2
C8_Witness ==
  \E u \in UserIds :
    /\ WriterOf(1, u) /\ WriterOf(2, u)
    /\ handlerCalls[1].pc = "awaitBalance"
    /\ handlerCalls[2].pc = "done"
    /\ handlerCalls[1].wallet # handlerCalls[2].wallet
    /\ DOMAIN handlerCalls[1].wallet # DOMAIN handlerCalls[2].wallet
    /\ getUserWallet(userWallets, u) = handlerCalls[2].wallet

(***************************************************************************)
(* Properties of decrypt (CipherSpec)                                      *)
(***************************************************************************)
\* C9: decrypt of a buffer shorter than the 44-byte header rejects, and it
\* rejects before any cryptographic operation (scrypt, createDecipheriv) is
\* made.
C9_ShortBufferFailsFirst ==
  (cipher.pc = "decrypted" /\ Len(cipher.envelope) < HEADER_LEN) =>
    /\ cipher.result.status = "rejected"
    /\ cipher.result.ops = <<>>

\* a ten-byte buffer was handed to decrypt
C9_Witness ==
  /\ cipher.pc = "decrypted"
  /\ cipher.origin = "alloc"
  /\ Len(cipher.envelope) = 10

\* C10: decrypt rejects when the password is not the one encrypt used, when
\* a byte of the envelope was altered, or when the envelope was truncated.
C10_FailsClosed ==
  (/\ cipher.pc = "decrypted"
   /\ cipher.origin = "encrypt"
   /\ \/ cipher.usedPassword # cipher.password
      \/ cipher.tamper \in {"altered", "truncated"})
    => cipher.result.status = "rejected"

\* an altered, a truncated or a wrongly keyed envelope was handed to decrypt
C10_Witness ==
  /\ cipher.pc = "decrypted"
  /\ cipher.origin = "encrypt"
  /\ cipher.tamper = "truncated"
  /\ Len(cipher.envelope) < HEADER_LEN
  /\ cipher.usedPassword = cipher.password

(***************************************************************************)
(* Properties of encrypt and decrypt together (SealSpec)                   *)
(***************************************************************************)
Unsealed(i) == sealed.envelopes[i].back # NoResult

\* C11, as claimed: for every string s, the empty one included, and every
\* password p, decrypt(encrypt(s, p), p) resolves to s.
C11_RoundTrip ==
  \A i \in 1..Len(sealed.envelopes) :
    Unsealed(i) =>
      /\ sealed.envelopes[i].back.status = "resolved"
      /\ sealed.envelopes[i].back.value = sealed.plaintext

\* a string with no unpaired surrogate
RECURSIVE WellFormed(_)
WellFormed(s) ==
  IF s = <<>> THEN TRUE
  ELSE IF IsHighSurrogate(s[1])
    THEN Len(s) >= 2 /\ IsLowSurrogate(s[2]) /\ WellFormed(SubSeq(s, 3, Len(s)))
  ELSE ~IsLowSurrogate(s[1]) /\ WellFormed(Tail(s))

\* C11, amended: for every string s with no unpaired surrogate, the empty
\* one included, and every password p, decrypt(encrypt(s, p), p) resolves
\* to s.
C11_RoundTripWellFormed ==
  \A i \in 1..Len(sealed.envelopes) :
    (Unsealed(i) /\ WellFormed(sealed.plaintext)) =>
      /\ sealed.envelopes[i].back.status = "resolved"
      /\ sealed.envelopes[i].back.value = sealed.plaintext

\* a string of a two-byte character and a string of one surrogate pair
\* have come back from decrypt
C11_Witness ==
  /\ sealed.plaintext \in {<<233, 65>>, <<55357, 56832>>}
  /\ Len(sealed.envelopes) >= 1
  /\ Unsealed(1)
  /\ sealed.envelopes[1].back.value = sealed.plaintext

\* C13: every envelope encrypt returns is salt(16) || iv(12) || authTag(16)
\* || ciphertext: its length is 44 plus the byte length of the plaintext,
\* 44 for the empty plaintext and never less.
C13_EnvelopeLayout ==
  \A i \in 1..Len(sealed.envelopes) :
    LET e == sealed.envelopes[i]
        salt == subarray(e.value, 0, 16)
        iv == subarray(e.value, 16, 28)
        authTag == subarray(e.value, 28, 44)
        ciphertext == subarray(e.value, 44, Len(e.value))
    IN  /\ Len(e.value) = 44 + Len(utf8Encode(sealed.plaintext))
        /\ Len(e.value) >= 44
        /\ sealed.plaintext = <<>> => Len(e.value) = 44
        /\ salt = randomBytes(SALT_LEN, e.saltDraw)
        /\ iv = randomBytes(IV_LEN, e.ivDraw)
        /\ authTag = getAuthTag(scrypt(sealed.password, salt), iv, ciphertext)
        /\ Len(ciphertext) = Len(utf8Encode(sealed.plaintext))

\* the empty plaintext was sealed into 44 bytes
C13_Witness ==
  /\ sealed.plaintext = <<>>
  /\ Len(sealed.envelopes) >= 1
  /\ Len(sealed.envelopes[1].value) = 44

\* C14: two encrypt calls on the same plaintext and password draw their own
\* salt and IV and return envelopes of equal length that differ.
C14_EnvelopesDiffer ==
  \A i, j \in 1..Len(sealed.envelopes) :
    i # j =>
      /\ sealed.envelopes[i].value # sealed.envelopes[j].value
      /\ Len(sealed.envelopes[i].value) = Len(sealed.envelopes[j].value)
      /\ subarray(sealed.envelopes[i].value, 0, 16)
           # subarray(sealed.envelopes[j].value, 0, 16)
      /\ subarray(sealed.envelopes[i].value, 16, 28)
           # subarray(sealed.envelopes[j].value, 16, 28)

\* encrypt was called twice on one input
C14_Witness ==
  /\ Len(sealed.envelopes) >= 2
  /\ sealed.plaintext # <<>>

\* the error of a failed authentication, which a wrong password gives
AuthenticationError == "Unsupported state or unable to authenticate data"

\* C12: every decrypt failure reaches the caller as one error kind: the
\* error for a too-short envelope, for an altered byte and for a wrong
\* password is the same one.
C12_OneErrorKind ==
  (/\ cipher.pc = "decrypted"
   /\ cipher.result.status = "rejected"
   /\ cipher.result.ops # <<"scrypt">>)
    => cipher.result.error = AuthenticationError

\* a truncated envelope and its error
C12_Witness ==
  /\ cipher.pc = "decrypted"
  /\ cipher.tamper = "truncated"
  /\ cipher.result.status = "rejected"
  /\ cipher.result.error = "Invalid authentication tag length"

(***************************************************************************)
(* WalletManager claims, under ManagerSpec                                 *)
(***************************************************************************)
ImportCalls ==
  {i \in 1..Len(manager) : manager[i].op = "importFromPrivateKey"}

\* the hex-encoded length of the full secret-key export of a variant: the
\* 32-byte private key of part_004, the 64-byte secretKey of part_003
HexLengthOf(variant) ==
  IF variant = "part_004" THEN 2 * Len(SeedOf(1)) ELSE 2 * Len(SecretKeyOf(1))

\* C15: importFromPrivateKey reads a bracket-delimited text as a JSON byte
\* array whatever its length; otherwise a text as long as the hex encoding of
\* the full secret-key export as hexadecimal; every other text as base58.
C15_DecoderPriority ==
  \A i \in ImportCalls :
    LET text == manager[i].input
        bracketed == text[1] = 91 /\ text[Len(text)] = 93
    IN manager[i].result.decoder =
         IF bracketed THEN "json"
         ELSE IF Len(text) = HexLengthOf(manager[i].variant) THEN "hex"
         ELSE "base58"

\* a bracketed text of the hex length read as JSON by part_004, and a hex
\* text imported by part_003
C15_Witness ==
  /\ Len(manager) = 2
  /\ manager[1].variant = "part_004" /\ manager[1].op = "importFromPrivateKey"
  /\ Len(manager[1].input) = 64 /\ manager[1].input[1] = 91
  /\ manager[1].result.decoder = "json"
  /\ manager[2].variant = "part_003" /\ manager[2].op = "importFromPrivateKey"
  /\ Len(manager[2].input) = 128 /\ manager[2].result.decoder = "hex"
  /\ manager[2].result.status = "resolved"

\* byte arrays and their JSON texts
C16_Arrays ==
  {SeedOf(k) : k \in Keys} \cup {Pkcs8Of(k) : k \in Keys}
    \cup {<<1, 2, 3>>, [i \in 1..31 |-> IF i = 1 THEN 10 ELSE 1]}
C16_TextOf == [a \in C16_Arrays |-> jsonStringify(a)]

\* C16: given the JSON text of a byte array, importFromPrivateKey (part_004)
\* hands an array of 32 bytes to the key constructor as it is, a longer
\* array's trailing 32 bytes, and fails with 'Key is too short' on a shorter
\* one, constructing no key.
C16_ProcessKey ==
  \A i \in ImportCalls : \A a \in C16_Arrays :
    (manager[i].variant = "part_004" /\ manager[i].input = C16_TextOf[a]) =>
      IF Len(a) = 32 THEN manager[i].result.derived = <<a>>
      ELSE IF Len(a) > 32
        THEN manager[i].result.derived = <<[j \in 1..32 |-> a[Len(a) - 32 + j]]>>
      ELSE /\ manager[i].result.status = "rejected"
           /\ manager[i].result.derived = <<>>
           /\ manager[i].result.error.message[3]
                = "Key is too short. Expected at least 32 bytes."

\* the PKCS#8 export of a key imported as that key, and [1,2,3] rejected
C16_Witness ==
  /\ Len(manager) = 2
  /\ manager[1].variant = "part_004" /\ manager[1].op = "importFromPrivateKey"
  /\ manager[1].input = C16_TextOf[Pkcs8Of(1)]
  /\ manager[1].result.status = "resolved"
  /\ manager[1].result.value.privateKey = PrivateCryptoKey(1)
  /\ manager[2].variant = "part_004" /\ manager[2].op = "importFromPrivateKey"
  /\ manager[2].input = <<91, 49, 44, 50, 44, 51, 93>>
  /\ manager[2].result.status = "rejected"

\* C17: a failure inside importFromPrivateKey reaches the caller as an
\* ImportError whose cause is the error that was caught.
C17_ImportErrorWithCause ==
  \A i \in ImportCalls :
    manager[i].result.status = "rejected" =>
      /\ manager[i].result.error.class = "ImportError"
      /\ manager[i].result.error.cause = manager[i].result.thrown

\* a parse failure and a key-construction failure, both re-raised
C17_Witness ==
  /\ Len(manager) = 2
  /\ manager[1].op = "importFromPrivateKey" /\ manager[1].result.status = "rejected"
  /\ manager[1].result.thrown.class = "SyntaxError"
  /\ manager[2].op = "importFromPrivateKey" /\ manager[2].result.status = "rejected"
  /\ manager[2].result.derived # <<>>

\* C18: generateWallet fails only with a GenerateError 'Failed to generate
\* wallet: ...', whether generating the mnemonic or deriving the key failed.
C18_OnlyGenerateError ==
  \A i \in 1..Len(manager) :
    (manager[i].op = "generateWallet" /\ manager[i].result.status = "rejected") =>
      /\ manager[i].result.error.class = "GenerateError"
      /\ manager[i].result.error.message[1] = "Failed to generate wallet: "

\* both failures of generateWallet
C18_Witness ==
  /\ Len(manager) = 2
  /\ manager[1].op = "generateWallet" /\ manager[1].result.status = "rejected"
  /\ manager[1].input = 0
  /\ manager[2].op = "generateWallet" /\ manager[2].result.status = "rejected"
  /\ manager[2].input # 0

\* C19: importFromMnemonic of a phrase that is no valid mnemonic, the empty
\* one included, fails with 'Failed to import from mnemonic: ...' and hands
\* nothing to the key constructor.
C19_InvalidMnemonicRejected ==
  \A i \in 1..Len(manager) :
    (/\ manager[i].op = "importFromMnemonic"
     /\ manager[i].input \notin {MnemonicOf(k) : k \in Keys}) =>
      /\ manager[i].result.status = "rejected"
      /\ manager[i].result.error.message[1] = "Failed to import from mnemonic: "
      /\ manager[i].result.derived = <<>>

\* the empty phrase and another invalid one, both rejected
C19_Witness ==
  /\ Len(manager) = 2
  /\ manager[1].op = "importFromMnemonic" /\ manager[1].input = <<>>
  /\ manager[1].result.status = "rejected"
  /\ manager[2].op = "importFromMnemonic" /\ manager[2].input = <<120>>
  /\ manager[2].result.status = "rejected"

C21_MnemonicByProvenance ==
  \A i \in 1..Len(manager) :
    manager[i].result.status = "resolved" =>
      LET info == manager[i].result.value
      IN /\ {"publicKey", "privateKey"} \subseteq DOMAIN info
         /\ info.publicKey # NoData /\ info.privateKey # NoData
         /\ manager[i].op = "generateWallet" =>
              "mnemonic" \in DOMAIN info /\ info.mnemonic = MnemonicOf(manager[i].input)
         /\ manager[i].op = "importFromMnemonic" =>
              "mnemonic" \in DOMAIN info /\ info.mnemonic = manager[i].input
         /\ manager[i].op = "importFromPrivateKey" => "mnemonic" \notin DOMAIN info

\* a wallet imported from a phrase and one imported from a private key
C21_Witness ==
  /\ Len(manager) = 2
  /\ manager[1].op = "importFromMnemonic" /\ manager[1].result.status = "resolved"
  /\ manager[1].result.value.mnemonic = manager[1].input
  /\ manager[2].op = "importFromPrivateKey" /\ manager[2].variant = "part_004"
  /\ manager[2].result.status = "resolved"

(***************************************************************************)
(* getBalance claims, under BalanceSpec                                    *)
(***************************************************************************)
StartedBalanceCalls == {c \in BalanceCallIds : balanceCalls[c].pc # "idle"}
DoneBalanceCalls == {c \in BalanceCallIds : balanceCalls[c].pc = "done"}
KnownAddresses == {AddressOf(k) : k \in Keys}

\* C22: a getBalance call whose argument fails address validation is
\* rejected with nothing sent to the balance endpoint; a call that has sent
\* a request has a valid address, and sent that address.
C22_NoRpcForInvalidAddress ==
  \A c \in StartedBalanceCalls :
    /\ balanceCalls[c].publicKey \notin KnownAddresses =>
         /\ balanceCalls[c].rpc = <<>>
         /\ balanceCalls[c].pc = "done"
         /\ balanceCalls[c].result.status = "rejected"
    /\ balanceCalls[c].rpc # <<>> =>
         /\ balanceCalls[c].publicKey \in KnownAddresses
         /\ balanceCalls[c].rpc = <<balanceCalls[c].publicKey>>

\* 'invalid' rejected by part_004 without a request, beside a call that has
\* sent one
C22_Witness ==
  /\ balanceCalls[1].variant = "part_004" /\ balanceCalls[1].pc = "done"
  /\ balanceCalls[1].publicKey = <<105, 110, 118, 97, 108, 105, 100>>
  /\ balanceCalls[1].result.status = "rejected" /\ balanceCalls[1].rpc = <<>>
  /\ balanceCalls[2].variant = "part_004" /\ balanceCalls[2].rpc # <<>>

\* C23: the error of part_004's getBalance for an invalid address has
\* INVALID_ADDRESS as its cause.
C23_InvalidAddressCause ==
  \A c \in DoneBalanceCalls :
    (/\ balanceCalls[c].variant = "part_004"
     /\ balanceCalls[c].publicKey \notin KnownAddresses) =>
      /\ balanceCalls[c].result.error.class = "GetBalanceError"
      /\ balanceCalls[c].result.error.cause = INVALID_ADDRESS

\* an invalid address and an RPC failure, both rejected by part_004
C23_Witness ==
  /\ balanceCalls[1].variant = "part_004" /\ balanceCalls[1].pc = "done"
  /\ balanceCalls[1].publicKey \notin KnownAddresses
  /\ balanceCalls[1].result.status = "rejected"
  /\ balanceCalls[2].variant = "part_004" /\ balanceCalls[2].pc = "done"
  /\ balanceCalls[2].publicKey \in KnownAddresses
  /\ balanceCalls[2].result.status = "rejected"

\* C24 as stated: getBalance returns the raw value the endpoint returned.
C24_RawValue ==
  \A c \in DoneBalanceCalls :
    balanceCalls[c].result.status = "resolved" =>
      balanceCalls[c].result.value = [num |-> balanceCalls[c].answer, den |-> 1]

\* C24: for a valid address getBalance asks the endpoint for that address;
\* when the endpoint answers, the call resolves with the answer converted
\* from lamports to SOL (whole SOL in part_004), zero for an address never
\* funded.
C24_ValueInSol ==
  \A c \in DoneBalanceCalls :
    LET call == balanceCalls[c]
    IN (call.publicKey \in KnownAddresses /\ call.answer >= 0) =>
         /\ call.rpc = <<call.publicKey>>
         /\ call.result.status = "resolved"
         /\ call.answer = 0 => call.result.value.num = 0
         /\ IF call.variant = "part_004"
              THEN /\ call.result.value.den = 1
                   /\ call.result.value.num \in 0..(call.answer \div (10 ^ 9))
                   /\ call.answer - call.result.value.num * (10 ^ 9) < 10 ^ 9
              ELSE /\ call.result.value.den = 10 ^ 9
                   /\ call.result.value.num = call.answer

\* a never-funded address and one holding 1.5 SOL
C24_Witness ==
  /\ balanceCalls[1].pc = "done" /\ balanceCalls[1].answer = 0
  /\ balanceCalls[1].result.status = "resolved"
  /\ balanceCalls[1].result.value.num = 0
  /\ balanceCalls[2].pc = "done" /\ balanceCalls[2].variant = "part_004"
  /\ balanceCalls[2].answer = 1500000000
  /\ balanceCalls[2].result.value.num = 1

\* C25: with L lamports on the ledger, getBalance resolves with L / 10^9 SOL:
\* the integer quotient in part_004, the quotient itself in part_003.
C25_LamportsToSol ==
  \A c \in DoneBalanceCalls :
    balanceCalls[c].result.status = "resolved" =>
      balanceCalls[c].result.value =
        IF balanceCalls[c].variant = "part_004"
          THEN [num |-> balanceCalls[c].answer \div (10 ^ 9), den |-> 1]
          ELSE [num |-> balanceCalls[c].answer, den |-> 10 ^ 9]

\* 2 SOL in both variants
C25_Witness ==
  /\ balanceCalls[1].pc = "done" /\ balanceCalls[1].variant = "part_004"
  /\ balanceCalls[1].answer = 2000000000
  /\ balanceCalls[1].result.value = [num |-> 2, den |-> 1]
  /\ balanceCalls[2].pc = "done" /\ balanceCalls[2].variant = "part_003"
  /\ balanceCalls[2].answer = 2000000000
  /\ balanceCalls[2].result.status = "resolved"

(***************************************************************************)
(* TelegramWalletHandler claims on failures, under HandlerSpec             *)
(***************************************************************************)
DoneHandlerCalls == {c \in HandlerCallIds : handlerCalls[c].pc = "done"}

\* the wallet manager call the handler awaited last was rejected
ManagerCallFailed(call) ==
  /\ call.pending.status = "rejected"
  /\ ~(call.op = "walletInfo" /\ call.wallet = NoData)

FailurePrefixOf(op) ==
  IF op = "generate" THEN "Failed to generate wallet: "
  ELSE IF op = "walletInfo" THEN "Failed to get wallet info: "
  ELSE "Failed to import wallet: "

\* C26: every finished handler call has resolved to a response; when the
\* wallet manager's generate, import or balance call failed, the response
\* is the 'Failed ...' text of the operation followed by the failure.
C26_FailuresAnswered ==
  \A c \in DoneHandlerCalls :
    /\ handlerCalls[c].response # <<>>
    /\ ManagerCallFailed(handlerCalls[c]) =>
         /\ handlerCalls[c].response[1] = FailurePrefixOf(handlerCalls[c].op)
         /\ handlerCalls[c].response[2] = handlerCalls[c].pending.error

\* a failed generation, and an import whose balance query failed, both
\* answered
C26_Witness ==
  /\ handlerCalls[1].pc = "done" /\ handlerCalls[1].op = "generate"
  /\ handlerCalls[1].pending.status = "rejected"
  /\ handlerCalls[1].response[1] = "Failed to generate wallet: "
  /\ handlerCalls[2].pc = "done" /\ handlerCalls[2].op = "importPrivateKey"
  /\ handlerCalls[2].wallet # NoData
  /\ handlerCalls[2].pending.status = "rejected"
  /\ handlerCalls[2].response[1] = "Failed to import wallet: "

\* C27: when an import call, the only call made, has answered 'Failed to
\* import wallet', the user's cache entry is what it was before the call:
\* absent.
C27_FailedImportKeepsCache ==
  \A c \in DoneHandlerCalls :
    (/\ handlerCalls[c].op \in {"importMnemonic", "importPrivateKey"}
     /\ handlerCalls[c].response[1] = "Failed to import wallet: "
     /\ \A d \in HandlerCallIds \ {c} : handlerCalls[d].pc = "idle") =>
      MapGet(userWallets, handlerCalls[c].userId) = NoData

\* an import that answered 'Failed to import wallet', alone
C27_Witness ==
  /\ handlerCalls[1].pc = "done" /\ handlerCalls[1].op = "importMnemonic"
  /\ handlerCalls[1].response[1] = "Failed to import wallet: "
  /\ handlerCalls[2].pc = "idle"

(***************************************************************************)
(* The bot's import conversation, under BotSpec                            *)
(***************************************************************************)
\* the step ends the handling of update b, a text taken as an import secret
SecretHandlingEnds(b) ==
  /\ botUpdates[b].route = "secret"
  /\ botUpdates[b].pc # "done"
  /\ botUpdates'[b].pc = "done"

\* the step starts the handling of update b, a text that meets a text
\* middleware while its sender has no AWAITING_IMPORT entry
PlainTextArrives(b) ==
  /\ botUpdates[b].pc = "idle"
  /\ botUpdates'[b].kind = "text"
  /\ textHandlers > 0
  /\ ~awaitingImport(userStates, botUpdates'[b].userId)

\* the step is the end of an /import command of user u whose prompt was sent
ImportCommandEnds(u) ==
  \E b \in BotUpdateIds :
    /\ botUpdates[b].kind = "import" /\ botUpdates[b].userId = u
    /\ botUpdates[b].pc = "awaitPrompt"
    /\ botUpdates'[b].pc = "done" /\ botUpdates'[b].outcome = "returned"

\* C28: the step that ends the handling of a text taken as a secret leaves
\* no state entry for its sender, whichever way the import, the store and
\* the replies went; an entry appears only when an /import command of that
\* user ends; and a text whose sender has no entry is handed to next().
C28_StateRemoved ==
  [][/\ \A b \in BotUpdateIds :
          SecretHandlingEnds(b) => MapIndex(userStates', botUpdates[b].userId) = 0
     /\ \A u \in UserIds :
          (MapIndex(userStates, u) = 0 /\ MapIndex(userStates', u) # 0)
            => ImportCommandEnds(u)
     /\ \A b \in BotUpdateIds :
          (PlainTextArrives(b) /\ MapIndex(userStates, botUpdates'[b].userId) = 0)
            => botUpdates'[b].route = "next"]_vars

\* /import, a text whose import failed, and the same user's next text,
\* which went to next()
C28_Witness ==
  /\ botUpdates[1].kind = "import" /\ botUpdates[1].outcome = "returned"
  /\ botUpdates[2].kind = "text" /\ botUpdates[2].route = "secret"
  /\ botUpdates[2].pc = "done" /\ botUpdates[2].imported.status = "rejected"
  /\ botUpdates[3].kind = "text" /\ botUpdates[3].route = "next"
  /\ botUpdates[2].userId = botUpdates[1].userId
  /\ botUpdates[3].userId = botUpdates[1].userId
  /\ MapIndex(userStates, botUpdates[1].userId) = 0

\* C29: when the handling of a text taken as an import secret has ended,
\* the chat no longer holds the message.
C29_SecretMessageDeleted ==
  \A b \in BotUpdateIds :
    (botUpdates[b].route = "secret" /\ botUpdates[b].pc = "done")
      => chat[b] = "deleted"

\* a text taken as a secret whose import failed, handled to the end
C29_Witness ==
  \E b \in BotUpdateIds :
    /\ botUpdates[b].route = "secret" /\ botUpdates[b].pc = "done"
    /\ botUpdates[b].imported.status = "rejected"
    /\ botUpdates[b].replies = <<"error">>

\* C30: a text whose sender is not in state AWAITING_IMPORT is handed to
\* next() at once, with no import, no store call, no write to the
\* collection and no change of userStates; a user's state becomes
\* AWAITING_IMPORT only when an /import command of theirs ends, and is
\* not AWAITING_IMPORT when the handling of their secret text ends.
C30_OnlyAwaitedTexts ==
  [][/\ \A b \in BotUpdateIds :
          PlainTextArrives(b) =>
            /\ botUpdates'[b].route = "next" /\ botUpdates'[b].pc = "done"
            /\ botUpdates'[b].imported = NoImport /\ botUpdates'[b].storeCall = 0
            /\ userStates' = userStates
            /\ storeCalls' = storeCalls /\ wallets' = wallets
     /\ \A u \in UserIds :
          (~awaitingImport(userStates, u) /\ awaitingImport(userStates', u))
            => ImportCommandEnds(u)
     /\ \A b \in BotUpdateIds :
          SecretHandlingEnds(b) => ~awaitingImport(userStates', botUpdates[b].userId)]_vars

\* while one user is awaited, another user's text went to next() and left
\* the first user's state and the collection as they were
C30_Witness ==
  /\ botUpdates[1].kind = "import" /\ botUpdates[1].outcome = "returned"
  /\ botUpdates[2].kind = "text" /\ botUpdates[2].route = "next"
  /\ botUpdates[2].pc = "done" /\ botUpdates[2].storeCall = 0
  /\ botUpdates[2].userId # botUpdates[1].userId
  /\ awaitingImport(userStates, botUpdates[1].userId)
  /\ wallets = <<>>

====
